---- MODULE Spec2Model ----
(***************************************************************************)
(* QuMail QKD buffer service (backend/app/qkd_service.py) as a state       *)
(* machine.  One action per public operation of QKDService; every action   *)
(* is the whole handler, executed while the service lock is held.          *)
(*                                                                         *)
(* Representation                                                          *)
(*  - A string is a sequence of character codes; 0 is the blank character  *)
(*    (it sorts below every other character, as ' ' does in Python).       *)
(*  - _active_users and _sessions are Python dicts: insertion-ordered.     *)
(*    They are sequences of entries, in insertion order.                   *)
(*  - bytes_data is run-length coded: a sequence of runs [src, len], the   *)
(*    run being the `len` bytes one call of os.urandom returned; src names *)
(*    the call (the session it was made for, and which of that session's   *)
(*    calls it was), so the bytes of different calls are different bytes.  *)
(*    A slice is a sequence of pieces [src, from, to].                     *)
(*  - uuid4() returns a fresh identifier: the value of a counter.          *)
(*  - time.time() is read several times by one handler.  A handler sees    *)
(*    the clock value t0 at its first read (the first _purge_expired) and  *)
(*    t1 >= t0 at all later reads.                                         *)
(***************************************************************************)
EXTENDS Integers, Sequences, FiniteSets, TLC

\* ------------------------------------------------------------------ bounds
MaxTime == 2
MaxSessions == 2
\* os.urandom runs held by the store: one per session, and one refill
MaxRuns == MaxSessions + 1

\* ------------------------------------------------- configuration, constants
\* QKDService's parameters, in ticks of the model clock and in MiB (config.py
\* sets 60 s, 3600 s and 128 MiB; the code uses them only in t - ttl,
\* t + ttl and min(n, max_buffer_mb))
presence_ttl_seconds == 1
session_ttl_seconds == 1
max_buffer_mb == 2
MiB == 1048576

\* ---------------------------------------------------------------- inputs
Blank == <<>>
UserA == <<1>>
UserB == <<2>>
UserC == <<3>>
\* ids as callers pass them: UserB comes with trailing blanks where the
\* handler strips its argument
UserBRaw == <<2, 0>>
Labels == {Blank}
\* the callers that drive the machine
HeartbeatIds == {Blank, UserA, UserBRaw}
CallerIds == {UserA, UserBRaw}
\* how far the clock may move between a handler's first and later reads
Drifts == {0, 1}
\* chunk sizes: none, half a MiB, and more than any session holds
Half == MiB \div 2
Huge == 8 * MiB
ChunkSizes == {0, Half, Huge}

\* --------------------------------------------------------------- helpers
Min(a, b) == IF a <= b THEN a ELSE b
Max(a, b) == IF a >= b THEN a ELSE b

RECURSIVE LStrip(_)
LStrip(s) == IF s # <<>> /\ Head(s) = 0 THEN LStrip(Tail(s)) ELSE s

RECURSIVE RStrip(_)
RStrip(s) ==
    IF s # <<>> /\ s[Len(s)] = 0 THEN RStrip(SubSeq(s, 1, Len(s) - 1)) ELSE s

\* str.strip()
Strip(s) == RStrip(LStrip(s))

\* Python's < on strings: lexicographic on character codes
RECURSIVE StrLess(_, _)
StrLess(s, t) ==
    IF t = <<>> THEN FALSE
    ELSE IF s = <<>> THEN TRUE
    ELSE IF Head(s) # Head(t) THEN Head(s) < Head(t)
    ELSE StrLess(Tail(s), Tail(t))

\* len(bytes_data)
RECURSIVE DataLen(_)
DataLen(data) == IF data = <<>> THEN 0 ELSE Head(data).len + DataLen(Tail(data))

\* bytes(bytes_data[start:end]) for start, end >= 0: Python clamps both to
\* the length and returns the empty string when end <= start
RECURSIVE SliceRuns(_, _, _, _)
SliceRuns(data, base, start, end) ==
    IF data = <<>> THEN <<>>
    ELSE LET run == Head(data)
             lo == Max(start, base)
             hi == Min(end, base + run.len)
             rest == SliceRuns(Tail(data), base + run.len, start, end)
         IN IF lo < hi
            THEN <<[src |-> run.src, from |-> lo - base, to |-> hi - base]>> \o rest
            ELSE rest

\* a slice one byte short: bytes_data[start:end - 1]
SliceShort(data, start, end) == SliceRuns(data, 0, start, end - 1)

Slice(data, start, end) == SliceRuns(data, 0, start, end)

\* len(chunk)
RECURSIVE ChunkLen(_)
ChunkLen(chunk) ==
    IF chunk = <<>> THEN 0 ELSE (Head(chunk).to - Head(chunk).from) + ChunkLen(Tail(chunk))

\* os.urandom(nbytes), the k-th call made for session session_id
urandom(session_id, k, nbytes) ==
    IF nbytes > 0 THEN <<[src |-> <<session_id, k>>, len |-> nbytes]>> ELSE <<>>

VARIABLES
    now,            \* the clock: the last value time.time() returned
    active_users,   \* QKDService._active_users, in insertion order
    sessions,       \* QKDService._sessions, in insertion order
    uuid_count,     \* number of uuid4() calls so far
    issued,         \* history: session_id -> end of the last range consume handed out
    lock,           \* QKDService._lock: the owning thread and its recursion level
    threads,        \* the calling threads: the frames each is in and where it stands
    gmail_accounts, \* the rows of table gmail_accounts, in table order
    gmail_messages, \* the rows of table gmail_messages: <<account_id, gmail_message_id>>
    sync,           \* SyncService.sync_all: the accounts it listed, how far it is, its results
    retry           \* GmailClient._run_with_retry: the locals of the call in progress

\* the data of the mail synchronisation
mail_vars == <<gmail_accounts, gmail_messages, sync, retry>>

vars == <<now, active_users, sessions, uuid_count, issued, lock, threads, mail_vars>>

\* the service's data, passed through the nested calls of one handler
State == [active_users |-> active_users, sessions |-> sessions,
          uuid_count |-> uuid_count]

\* A handler maps the service's data and its arguments to [st, ret]: the data
\* afterwards and the outcome.  In an outcome err is "none" for a normal
\* return, else the kind of the ValueError raised
\*   validation    "... is required", "... must be different ...", "... must be
\*                 greater than 0", "offset must be non-negative", "user_id is
\*                 not part of this QKD session"
\*   policy        "Both accounts must be active at the same time ..."
\*   not_found     "QKD session not found or expired"
\*   exhaustion    "No QKD bytes available in session. Refill is required."
\*   out_of_bounds "Requested key chunk is outside QKD session bounds"
\*   empty_chunk   "Requested QKD key chunk is empty"
NoRet == [op |-> "none", err |-> "none", found |-> FALSE, session_id |-> 0,
          user_a |-> Blank, user_b |-> Blank, total_bytes |-> 0,
          available_bytes |-> 0, consumed_bytes |-> 0, created_at |-> 0,
          expires_at |-> 0, offset |-> 0, chunk_size |-> 0, chunk |-> <<>>,
          users |-> <<>>]

Raise(op, kind) == [NoRet EXCEPT !.op = op, !.err = kind]

\* QKDBuffer.available_bytes
\* a count of available bytes that ignores what was consumed
available_bytes_of_total(session) == session.total_bytes

available_bytes(session) == Max(0, session.total_bytes - session.consumed_bytes)

\* consume without the clamp to the bytes available: count = requested_bytes
consume_unclamped(session, requested_bytes) ==
    LET start == session.consumed_bytes
        end == start + requested_bytes
    IN IF available_bytes(session) <= 0
       THEN [session |-> session, chunk |-> <<>>, offset |-> session.consumed_bytes]
       ELSE [session |-> [session EXCEPT !.consumed_bytes = end],
             chunk |-> Slice(session.bytes_data, start, end),
             offset |-> start]

\* consume returning the end of the chunk as its offset
consume_returns_end(session, requested_bytes) ==
    LET available == available_bytes(session)
        start == session.consumed_bytes
        end == start + Min(requested_bytes, available)
    IN IF available <= 0
       THEN [session |-> session, chunk |-> <<>>, offset |-> session.consumed_bytes]
       ELSE [session |-> [session EXCEPT !.consumed_bytes = end],
             chunk |-> Slice(session.bytes_data, start, end),
             offset |-> end]

\* consume that forgets to move the cursor
consume_no_advance(session, requested_bytes) ==
    LET available == available_bytes(session)
        start == session.consumed_bytes
        end == start + Min(requested_bytes, available)
    IN IF available <= 0
       THEN [session |-> session, chunk |-> <<>>, offset |-> session.consumed_bytes]
       ELSE [session |-> session,
             chunk |-> Slice(session.bytes_data, start, end),
             offset |-> start]

\* QKDBuffer.consume: the session afterwards, the chunk and its start offset
consume(session, requested_bytes) ==
    LET available == available_bytes(session)
        count == Min(requested_bytes, available)
        start == session.consumed_bytes
        end == start + count
    IN IF available <= 0
       THEN [session |-> session, chunk |-> <<>>, offset |-> session.consumed_bytes]
       ELSE [session |-> [session EXCEPT !.consumed_bytes = end],
             chunk |-> Slice(session.bytes_data, start, end),
             offset |-> start]

\* a purge that drops aged presence entries and keeps every session
_purge_expired_presence_only(st, t) ==
    LET Fresh(entry) == entry.seen_at >= t - presence_ttl_seconds
    IN [st EXCEPT !.active_users = SelectSeq(st.active_users, Fresh)]

\* a purge that drops expired sessions and keeps every presence entry
_purge_expired_sessions_only(st, t) ==
    LET Live(session) == session.expires_at >= t
    IN [st EXCEPT !.sessions = SelectSeq(st.sessions, Live)]

\* a purge that also drops the sessions whose members are not both present
_purge_expired_with_members(st, t) ==
    LET active_cutoff == t - presence_ttl_seconds
        Fresh(entry) == entry.seen_at >= active_cutoff
        fresh == SelectSeq(st.active_users, Fresh)
        ids == {fresh[k].user_id : k \in 1..Len(fresh)}
        Live(session) ==
            /\ session.expires_at >= t
            /\ session.user_a \in ids
            /\ session.user_b \in ids
    IN [st EXCEPT !.active_users = fresh,
                  !.sessions = SelectSeq(st.sessions, Live)]

\* QKDService._purge_expired at clock value t
_purge_expired(st, t) ==
    LET active_cutoff == t - presence_ttl_seconds
        Fresh(entry) == entry.seen_at >= active_cutoff
        Live(session) == session.expires_at >= t
    IN [st EXCEPT !.active_users = SelectSeq(st.active_users, Fresh),
                  !.sessions = SelectSeq(st.sessions, Live)]

\* a presence test that everyone passes
IsActiveAlways(st, user_id) == TRUE

\* user_id in self._active_users
IsActive(st, user_id) ==
    \E i \in 1..Len(st.active_users) : st.active_users[i].user_id = user_id

\* self._active_users[user_id] = entry: a known key keeps its place in the dict
\* an assignment that always adds an entry, also when the user has one
SetActiveAppend(st, entry) ==
    [st EXCEPT !.active_users = Append(st.active_users, entry)]

SetActive(st, entry) ==
    IF IsActive(st, entry.user_id)
    THEN [st EXCEPT !.active_users =
            [i \in 1..Len(st.active_users) |->
                IF st.active_users[i].user_id = entry.user_id
                THEN entry ELSE st.active_users[i]]]
    ELSE [st EXCEPT !.active_users = Append(st.active_users, entry)]

\* list.sort(key=label): a stable insertion sort
RECURSIVE InsertByLabel(_, _)
InsertByLabel(sorted, item) ==
    IF sorted = <<>> THEN <<item>>
    ELSE IF StrLess(item.label, Head(sorted).label)
         THEN <<item>> \o sorted
         ELSE <<Head(sorted)>> \o InsertByLabel(Tail(sorted), item)

\* no sort: the items stay in the order the dict holds them
SortByLabelKeepsOrder(items) == items

RECURSIVE SortByLabel(_)
SortByLabel(items) ==
    IF items = <<>> THEN <<>>
    ELSE InsertByLabel(SortByLabel(SubSeq(items, 1, Len(items) - 1)), items[Len(items)])

\* list_active_users that lists what is stored, without purging first
list_active_users_no_purge(st, exclude_user_id, t0, t1) ==
    LET Kept(entry) == ~(exclude_user_id # Blank /\ entry.user_id = exclude_user_id)
        kept == SelectSeq(st.active_users, Kept)
        users == [i \in 1..Len(kept) |->
                    [user_id |-> kept[i].user_id,
                     label |-> kept[i].label,
                     last_seen_seconds |-> Max(0, t1 - kept[i].seen_at)]]
    IN [st |-> st,
        ret |-> [NoRet EXCEPT !.op = "list_active_users", !.users = SortByLabel(users)]]

\* QKDService.list_active_users: purges at t0, reads the clock again (t1)
list_active_users(st, exclude_user_id, t0, t1) ==
    LET st1 == _purge_expired(st, t0)
        Kept(entry) == ~(exclude_user_id # Blank /\ entry.user_id = exclude_user_id)
        kept == SelectSeq(st1.active_users, Kept)
        users == [i \in 1..Len(kept) |->
                    [user_id |-> kept[i].user_id,
                     label |-> kept[i].label,
                     last_seen_seconds |-> Max(0, t1 - kept[i].seen_at)]]
    IN [st |-> st1,
        ret |-> [NoRet EXCEPT !.op = "list_active_users", !.users = SortByLabel(users)]]

\* QKDService.mark_active (heartbeat is the same call)
mark_active(st, raw_user_id, raw_label, t0, t1) ==
    LET user_id == Strip(raw_user_id)
        st1 == _purge_expired(st, t0)
        display == IF Strip(raw_label) # Blank THEN Strip(raw_label) ELSE user_id
        st2 == SetActive(st1, [user_id |-> user_id, seen_at |-> t1, label |-> display])
        peers == list_active_users(st2, user_id, t1, t1)
    IN IF user_id = Blank
       THEN [st |-> st, ret |-> Raise("mark_active", "validation")]
       ELSE [st |-> peers.st,
             ret |-> [peers.ret EXCEPT !.op = "mark_active", !.user_a = user_id]]

\* a pair key that keeps the caller's order
_pair_key_unsorted(user_a, user_b) == <<user_a, user_b>>

\* QKDService._pair_key: tuple(sorted([user_a, user_b]))
_pair_key(user_a, user_b) ==
    IF StrLess(user_b, user_a) THEN <<user_b, user_a>> ELSE <<user_a, user_b>>

\* a search that never finds the pair's session
_find_pair_session_misses(st, user_id, peer_user_id, t) == 0

\* QKDService._find_pair_session at clock value t: the position in the dict
\* of the first live session of the pair, 0 for None
_find_pair_session(st, user_id, peer_user_id, t) ==
    LET pair == _pair_key(user_id, peer_user_id)
        hits == {i \in 1..Len(st.sessions) :
                    /\ _pair_key(st.sessions[i].user_a, st.sessions[i].user_b) = pair
                    /\ st.sessions[i].expires_at >= t}
    IN IF hits = {} THEN 0 ELSE CHOOSE i \in hits : \A j \in hits : i <= j

\* self._sessions.get(session_id): the position in the dict, 0 for None
SessionAt(st, session_id) ==
    LET hits == {i \in 1..Len(st.sessions) : st.sessions[i].session_id = session_id}
    IN IF hits = {} THEN 0 ELSE CHOOSE i \in hits : TRUE

\* the status dict of a session
StatusOf(op, session) ==
    [NoRet EXCEPT !.op = op, !.found = TRUE,
                  !.session_id = session.session_id,
                  !.user_a = session.user_a, !.user_b = session.user_b,
                  !.total_bytes = session.total_bytes,
                  !.available_bytes = available_bytes(session),
                  !.consumed_bytes = session.consumed_bytes,
                  !.created_at = session.created_at,
                  !.expires_at = session.expires_at]

\* QKDService.session_status at clock value t, on behalf of operation op
session_status(st, session_id, t, op) ==
    LET st1 == _purge_expired(st, t)
        i == SessionAt(st1, session_id)
    IN IF i = 0
       THEN [st |-> st1, ret |-> Raise(op, "not_found")]
       ELSE [st |-> st1, ret |-> StatusOf(op, st1.sessions[i])]

\* create_session that renews the deadline of the session it reuses
create_session_touching(st, raw_user_id, raw_peer_user_id, target_mb, t0, t1, op) ==
    LET user_id == Strip(raw_user_id)
        peer_user_id == Strip(raw_peer_user_id)
        pair == _pair_key(user_id, peer_user_id)
        st1 == _purge_expired(st, t0)
        requested_bytes == Max(1, Min(target_mb, max_buffer_mb)) * MiB
        existing == _find_pair_session(st1, user_id, peer_user_id, t1)
        touched == [st1 EXCEPT !.sessions[existing].expires_at = t1 + session_ttl_seconds]
        session_id == st1.uuid_count + 1
        session == [session_id |-> session_id,
                    user_a |-> pair[1],
                    user_b |-> pair[2],
                    total_bytes |-> requested_bytes,
                    created_at |-> t1,
                    expires_at |-> t1 + session_ttl_seconds,
                    bytes_data |-> urandom(session_id, 1, requested_bytes),
                    consumed_bytes |-> 0]
        st2 == [st1 EXCEPT !.sessions = Append(st1.sessions, session),
                           !.uuid_count = session_id]
    IN IF user_id = Blank \/ peer_user_id = Blank \/ user_id = peer_user_id
       THEN [st |-> st, ret |-> Raise(op, "validation")]
       ELSE IF ~IsActive(st1, user_id) \/ ~IsActive(st1, peer_user_id)
       THEN [st |-> st1, ret |-> Raise(op, "policy")]
       ELSE IF existing # 0 /\ available_bytes(st1.sessions[existing]) > 0
       THEN session_status(touched, st1.sessions[existing].session_id, t1, op)
       ELSE session_status(st2, session_id, t1, op)

\* create_session without the floor of 1 MiB: requested_mb = min(target_mb,
\* max_buffer_mb)
create_session_no_floor(st, raw_user_id, raw_peer_user_id, target_mb, t0, t1, op) ==
    LET user_id == Strip(raw_user_id)
        peer_user_id == Strip(raw_peer_user_id)
        pair == _pair_key(user_id, peer_user_id)
        st1 == _purge_expired(st, t0)
        requested_bytes == Min(target_mb, max_buffer_mb) * MiB
        existing == _find_pair_session(st1, user_id, peer_user_id, t1)
        session_id == st1.uuid_count + 1
        session == [session_id |-> session_id,
                    user_a |-> pair[1],
                    user_b |-> pair[2],
                    total_bytes |-> requested_bytes,
                    created_at |-> t1,
                    expires_at |-> t1 + session_ttl_seconds,
                    bytes_data |-> urandom(session_id, 1, requested_bytes),
                    consumed_bytes |-> 0]
        st2 == [st1 EXCEPT !.sessions = Append(st1.sessions, session),
                           !.uuid_count = session_id]
    IN IF user_id = Blank \/ peer_user_id = Blank \/ user_id = peer_user_id
       THEN [st |-> st, ret |-> Raise(op, "validation")]
       ELSE IF ~IsActive(st1, user_id) \/ ~IsActive(st1, peer_user_id)
       THEN [st |-> st1, ret |-> Raise(op, "policy")]
       ELSE IF existing # 0 /\ available_bytes(st1.sessions[existing]) > 0
       THEN session_status(st1, st1.sessions[existing].session_id, t1, op)
       ELSE session_status(st2, session_id, t1, op)

\* QKDService.create_session on behalf of operation op: validation before the
\* lock is taken, the purge at t0, every later clock read at t1
create_session(st, raw_user_id, raw_peer_user_id, target_mb, t0, t1, op) ==
    LET user_id == Strip(raw_user_id)
        peer_user_id == Strip(raw_peer_user_id)
        pair == _pair_key(user_id, peer_user_id)
        st1 == _purge_expired(st, t0)
        requested_mb == Max(1, Min(target_mb, max_buffer_mb))
        requested_bytes == requested_mb * MiB
        existing == _find_pair_session(st1, user_id, peer_user_id, t1)
        session_id == st1.uuid_count + 1
        key_material == urandom(session_id, 1, requested_bytes)
        created_at == t1
        session == [session_id |-> session_id,
                    user_a |-> pair[1],
                    user_b |-> pair[2],
                    total_bytes |-> requested_bytes,
                    created_at |-> created_at,
                    expires_at |-> created_at + session_ttl_seconds,
                    bytes_data |-> key_material,
                    consumed_bytes |-> 0]
        st2 == [st1 EXCEPT !.sessions = Append(st1.sessions, session),
                           !.uuid_count = session_id]
    IN IF user_id = Blank \/ peer_user_id = Blank
       THEN [st |-> st, ret |-> Raise(op, "validation")]
       ELSE IF user_id = peer_user_id
       THEN [st |-> st, ret |-> Raise(op, "validation")]
       ELSE IF ~IsActive(st1, user_id) \/ ~IsActive(st1, peer_user_id)
       THEN [st |-> st1, ret |-> Raise(op, "policy")]
       ELSE IF existing # 0 /\ available_bytes(st1.sessions[existing]) > 0
       THEN session_status(st1, st1.sessions[existing].session_id, t1, op)
       ELSE session_status(st2, session_id, t1, op)

\* refill_session without the clamp of add_mb to max_buffer_mb
refill_session_unclamped(st, raw_user_id, raw_peer_user_id, raw_add_mb, t0, t1) ==
    LET op == "refill_session"
        user_id == Strip(raw_user_id)
        peer_user_id == Strip(raw_peer_user_id)
        st1 == _purge_expired(st, t0)
        add_bytes == raw_add_mb * MiB
        i == _find_pair_session(st1, user_id, peer_user_id, t1)
        session == st1.sessions[i]
        refilled == [session EXCEPT
                        !.bytes_data =
                            @ \o urandom(session.session_id, Len(@) + 1, add_bytes),
                        !.total_bytes = @ + add_bytes,
                        !.expires_at = t1 + session_ttl_seconds]
        st2 == [st1 EXCEPT !.sessions[i] = refilled]
    IN IF user_id = Blank \/ peer_user_id = Blank \/ user_id = peer_user_id
       THEN [st |-> st, ret |-> Raise(op, "validation")]
       ELSE IF raw_add_mb <= 0
       THEN [st |-> st, ret |-> Raise(op, "validation")]
       ELSE IF ~IsActive(st1, user_id) \/ ~IsActive(st1, peer_user_id)
       THEN [st |-> st1, ret |-> Raise(op, "policy")]
       ELSE IF i = 0
       THEN create_session(st1, user_id, peer_user_id, raw_add_mb, t1, t1, op)
       ELSE session_status(st2, session.session_id, t1, op)

\* refill_session that appends bytes and leaves the deadline as it was
refill_session_keeps_deadline(st, raw_user_id, raw_peer_user_id, raw_add_mb, t0, t1) ==
    LET op == "refill_session"
        user_id == Strip(raw_user_id)
        peer_user_id == Strip(raw_peer_user_id)
        st1 == _purge_expired(st, t0)
        add_mb == Min(raw_add_mb, max_buffer_mb)
        add_bytes == add_mb * MiB
        i == _find_pair_session(st1, user_id, peer_user_id, t1)
        session == st1.sessions[i]
        refilled == [session EXCEPT
                        !.bytes_data =
                            @ \o urandom(session.session_id, Len(@) + 1, add_bytes),
                        !.total_bytes = @ + add_bytes]
        st2 == [st1 EXCEPT !.sessions[i] = refilled]
    IN IF user_id = Blank \/ peer_user_id = Blank \/ user_id = peer_user_id
       THEN [st |-> st, ret |-> Raise(op, "validation")]
       ELSE IF raw_add_mb <= 0
       THEN [st |-> st, ret |-> Raise(op, "validation")]
       ELSE IF ~IsActive(st1, user_id) \/ ~IsActive(st1, peer_user_id)
       THEN [st |-> st1, ret |-> Raise(op, "policy")]
       ELSE IF i = 0
       THEN create_session(st1, user_id, peer_user_id, add_mb, t1, t1, op)
       ELSE session_status(st2, session.session_id, t1, op)

\* refill_session that raises the not-found error where the pair has no live
\* session, instead of creating one
refill_session_no_create(st, raw_user_id, raw_peer_user_id, raw_add_mb, t0, t1) ==
    LET op == "refill_session"
        user_id == Strip(raw_user_id)
        peer_user_id == Strip(raw_peer_user_id)
        st1 == _purge_expired(st, t0)
        add_mb == Min(raw_add_mb, max_buffer_mb)
        add_bytes == add_mb * MiB
        i == _find_pair_session(st1, user_id, peer_user_id, t1)
        session == st1.sessions[i]
        refilled == [session EXCEPT
                        !.bytes_data =
                            @ \o urandom(session.session_id, Len(@) + 1, add_bytes),
                        !.total_bytes = @ + add_bytes,
                        !.expires_at = t1 + session_ttl_seconds]
        st2 == [st1 EXCEPT !.sessions[i] = refilled]
    IN IF user_id = Blank \/ peer_user_id = Blank \/ user_id = peer_user_id
       THEN [st |-> st, ret |-> Raise(op, "validation")]
       ELSE IF raw_add_mb <= 0
       THEN [st |-> st, ret |-> Raise(op, "validation")]
       ELSE IF ~IsActive(st1, user_id) \/ ~IsActive(st1, peer_user_id)
       THEN [st |-> st1, ret |-> Raise(op, "policy")]
       ELSE IF i = 0
       THEN [st |-> st1, ret |-> Raise(op, "not_found")]
       ELSE session_status(st2, session.session_id, t1, op)

\* QKDService.refill_session
\* refill_session that draws the whole buffer anew instead of extending it
refill_session_redraws(st, raw_user_id, raw_peer_user_id, raw_add_mb, t0, t1) ==
    LET op == "refill_session"
        user_id == Strip(raw_user_id)
        peer_user_id == Strip(raw_peer_user_id)
        st1 == _purge_expired(st, t0)
        add_mb == Min(raw_add_mb, max_buffer_mb)
        add_bytes == add_mb * MiB
        i == _find_pair_session(st1, user_id, peer_user_id, t1)
        session == st1.sessions[i]
        refilled == [session EXCEPT
                        !.bytes_data =
                            urandom(session.session_id, Len(@) + 1,
                                    session.total_bytes + add_bytes),
                        !.total_bytes = @ + add_bytes,
                        !.expires_at = t1 + session_ttl_seconds]
        st2 == [st1 EXCEPT !.sessions[i] = refilled]
    IN IF user_id = Blank \/ peer_user_id = Blank
       THEN [st |-> st, ret |-> Raise(op, "validation")]
       ELSE IF user_id = peer_user_id
       THEN [st |-> st, ret |-> Raise(op, "validation")]
       ELSE IF raw_add_mb <= 0
       THEN [st |-> st, ret |-> Raise(op, "validation")]
       ELSE IF ~IsActive(st1, user_id) \/ ~IsActive(st1, peer_user_id)
       THEN [st |-> st1, ret |-> Raise(op, "policy")]
       ELSE IF i = 0
       THEN create_session(st1, user_id, peer_user_id, add_mb, t1, t1, op)
       ELSE session_status(st2, session.session_id, t1, op)

refill_session(st, raw_user_id, raw_peer_user_id, raw_add_mb, t0, t1) ==
    LET op == "refill_session"
        user_id == Strip(raw_user_id)
        peer_user_id == Strip(raw_peer_user_id)
        st1 == _purge_expired(st, t0)
        add_mb == Min(raw_add_mb, max_buffer_mb)
        add_bytes == add_mb * MiB
        i == _find_pair_session(st1, user_id, peer_user_id, t1)
        session == st1.sessions[i]
        refilled == [session EXCEPT
                        !.bytes_data =
                            @ \o urandom(session.session_id, Len(@) + 1, add_bytes),
                        !.total_bytes = @ + add_bytes,
                        !.expires_at = t1 + session_ttl_seconds]
        st2 == [st1 EXCEPT !.sessions[i] = refilled]
    IN IF user_id = Blank \/ peer_user_id = Blank
       THEN [st |-> st, ret |-> Raise(op, "validation")]
       ELSE IF user_id = peer_user_id
       THEN [st |-> st, ret |-> Raise(op, "validation")]
       ELSE IF raw_add_mb <= 0
       THEN [st |-> st, ret |-> Raise(op, "validation")]
       ELSE IF ~IsActive(st1, user_id) \/ ~IsActive(st1, peer_user_id)
       THEN [st |-> st1, ret |-> Raise(op, "policy")]
       ELSE IF i = 0
       THEN create_session(st1, user_id, peer_user_id, add_mb, t1, t1, op)
       ELSE session_status(st2, session.session_id, t1, op)

\* QKDService.pair_status: the ids are not stripped
pair_status(st, user_id, peer_user_id, t0, t1) ==
    LET op == "pair_status"
        st1 == _purge_expired(st, t0)
        i == _find_pair_session(st1, user_id, peer_user_id, t1)
    IN IF i = 0
       THEN [st |-> st1, ret |-> [NoRet EXCEPT !.op = op]]
       ELSE session_status(st1, st1.sessions[i].session_id, t1, op)

\* the chunk dict consume_key_chunk and read_key_chunk return
ChunkOf(op, session, offset, chunk) ==
    [NoRet EXCEPT !.op = op, !.found = TRUE,
                  !.session_id = session.session_id,
                  !.offset = offset,
                  !.chunk_size = ChunkLen(chunk),
                  !.chunk = chunk,
                  !.available_bytes = available_bytes(session),
                  !.consumed_bytes = session.consumed_bytes]

\* consume_key_chunk without its test for an empty chunk
ExhaustedNever(chunk) == FALSE

\* consume_key_chunk's test of the chunk consume returned: `if not chunk`
Exhausted(chunk) == chunk = <<>>

\* consume_key_chunk without its membership test
consume_key_chunk_open(st, session_id, raw_user_id, chunk_bytes, t0) ==
    LET op == "consume_key_chunk"
        st1 == _purge_expired(st, t0)
        i == SessionAt(st1, session_id)
        taken == consume(st1.sessions[i], chunk_bytes)
        st2 == [st1 EXCEPT !.sessions[i] = taken.session]
    IN IF chunk_bytes <= 0
       THEN [st |-> st, ret |-> Raise(op, "validation")]
       ELSE IF i = 0
       THEN [st |-> st1, ret |-> Raise(op, "not_found")]
       ELSE IF Exhausted(taken.chunk)
       THEN [st |-> st2, ret |-> Raise(op, "exhaustion")]
       ELSE [st |-> st2, ret |-> ChunkOf(op, taken.session, taken.offset, taken.chunk)]

\* consume_key_chunk that tests membership after it has consumed
consume_key_chunk_checks_late(st, session_id, raw_user_id, chunk_bytes, t0) ==
    LET op == "consume_key_chunk"
        user_id == Strip(raw_user_id)
        st1 == _purge_expired(st, t0)
        i == SessionAt(st1, session_id)
        session == st1.sessions[i]
        taken == consume(session, chunk_bytes)
        st2 == [st1 EXCEPT !.sessions[i] = taken.session]
    IN IF chunk_bytes <= 0
       THEN [st |-> st, ret |-> Raise(op, "validation")]
       ELSE IF i = 0
       THEN [st |-> st1, ret |-> Raise(op, "not_found")]
       ELSE IF user_id \notin {session.user_a, session.user_b}
       THEN [st |-> st2, ret |-> Raise(op, "validation")]
       ELSE IF Exhausted(taken.chunk)
       THEN [st |-> st2, ret |-> Raise(op, "exhaustion")]
       ELSE [st |-> st2, ret |-> ChunkOf(op, taken.session, taken.offset, taken.chunk)]

\* QKDService.consume_key_chunk
consume_key_chunk(st, session_id, raw_user_id, chunk_bytes, t0) ==
    LET op == "consume_key_chunk"
        user_id == Strip(raw_user_id)
        st1 == _purge_expired(st, t0)
        i == SessionAt(st1, session_id)
        session == st1.sessions[i]
        taken == consume(session, chunk_bytes)
        st2 == [st1 EXCEPT !.sessions[i] = taken.session]
    IN IF chunk_bytes <= 0
       THEN [st |-> st, ret |-> Raise(op, "validation")]
       ELSE IF i = 0
       THEN [st |-> st1, ret |-> Raise(op, "not_found")]
       ELSE IF user_id \notin {session.user_a, session.user_b}
       THEN [st |-> st1, ret |-> Raise(op, "validation")]
       ELSE IF Exhausted(taken.chunk)
       THEN [st |-> st2, ret |-> Raise(op, "exhaustion")]
       ELSE [st |-> st2, ret |-> ChunkOf(op, taken.session, taken.offset, taken.chunk)]

\* read_key_chunk that counts its offset from the cursor, not from byte 0
read_key_chunk_from_cursor(st, session_id, raw_user_id, offset, chunk_bytes, t0) ==
    LET op == "read_key_chunk"
        st1 == _purge_expired(st, t0)
        i == SessionAt(st1, session_id)
        session == st1.sessions[i]
        start == session.consumed_bytes + offset
        chunk == Slice(session.bytes_data, start, start + chunk_bytes)
    IN IF offset < 0 \/ chunk_bytes <= 0
       THEN [st |-> st, ret |-> Raise(op, "validation")]
       ELSE IF i = 0
       THEN [st |-> st1, ret |-> Raise(op, "not_found")]
       ELSE IF Strip(raw_user_id) \notin {session.user_a, session.user_b}
       THEN [st |-> st1, ret |-> Raise(op, "validation")]
       ELSE IF start + chunk_bytes > session.total_bytes
       THEN [st |-> st1, ret |-> Raise(op, "out_of_bounds")]
       ELSE [st |-> st1, ret |-> ChunkOf(op, session, offset, chunk)]

\* read_key_chunk served by the consuming path
read_key_chunk_consuming(st, session_id, raw_user_id, offset, chunk_bytes, t0) ==
    consume_key_chunk(st, session_id, raw_user_id, chunk_bytes, t0)

\* QKDService.read_key_chunk
read_key_chunk(st, session_id, raw_user_id, offset, chunk_bytes, t0) ==
    LET op == "read_key_chunk"
        user_id == Strip(raw_user_id)
        st1 == _purge_expired(st, t0)
        i == SessionAt(st1, session_id)
        session == st1.sessions[i]
        end == offset + chunk_bytes
        chunk == Slice(session.bytes_data, offset, end)
    IN IF offset < 0
       THEN [st |-> st, ret |-> Raise(op, "validation")]
       ELSE IF chunk_bytes <= 0
       THEN [st |-> st, ret |-> Raise(op, "validation")]
       ELSE IF i = 0
       THEN [st |-> st1, ret |-> Raise(op, "not_found")]
       ELSE IF user_id \notin {session.user_a, session.user_b}
       THEN [st |-> st1, ret |-> Raise(op, "validation")]
       ELSE IF end > session.total_bytes
       THEN [st |-> st1, ret |-> Raise(op, "out_of_bounds")]
       ELSE IF chunk = <<>>
       THEN [st |-> st1, ret |-> Raise(op, "empty_chunk")]
       ELSE [st |-> st1, ret |-> ChunkOf(op, session, offset, chunk)]

\* ------------------------------------------------------ mail synchronisation
\* SyncService over the tables gmail_accounts and gmail_messages.  A history
\* id is a positive number, 0 stands for None; a timestamp is a clock value,
\* -1 stands for None; an access token is the one stored at connect time or
\* a refreshed one.  The rows of a table keep only the columns sync_account
\* writes or reads.

\* two connected accounts, as connect_account stores them: no history yet
ConnectedAccounts ==
    <<[id |-> 1, email |-> 1, access_token |-> "stored", history_id |-> 0,
       last_sync_at |-> -1, updated_at |-> 0],
      [id |-> 2, email |-> 2, access_token |-> "stored", history_id |-> 0,
       last_sync_at |-> -1, updated_at |-> 0]>>

\* the two tables, passed through one handler
Tables == [accounts |-> gmail_accounts, messages |-> gmail_messages]

\* what Gmail may answer to list_message_ids: the ids, and the history id of
\* the answer (0: the answer carries none)
Listings == {<<>>, <<1>>, <<1, 2>>}
Histories == {0, 1}

\* where a run of sync_account may meet an exception: nowhere, in
\* ensure_fresh_access_token, in the update_account of the refreshed token,
\* in list_message_ids, in get_message_metadata or upsert_message of the
\* k-th id, in the final update_account
NoFailure == [at |-> "none", k |-> 0]
FailuresOf(ids, refreshed) ==
    {NoFailure, [at |-> "token", k |-> 0], [at |-> "list", k |-> 0],
     [at |-> "update", k |-> 0]}
    \cup (IF refreshed THEN {[at |-> "token_update", k |-> 0]} ELSE {})
    \cup {[at |-> a, k |-> k] : a \in {"fetch", "upsert"}, k \in 1..Len(ids)}

\* the answers of Gmail and of the database to one run of sync_account
Worlds ==
    {[refreshed |-> r, ids |-> ids, history |-> h, fails |-> f] :
        r \in BOOLEAN, ids \in Listings, h \in Histories, f \in FailuresOf(<<1, 2>>, TRUE)}

SyncWorlds == {w \in Worlds : w.fails \in FailuresOf(w.ids, w.refreshed)}

\* what sync_account returns, and the entry sync_all records for an error
NoResult == [email |-> 0, synced |-> 0, history_id |-> 0, error |-> "none"]

\* the position of a row in a table (0: no such row)
RowOf(accounts, account_id) ==
    LET hits == {i \in 1..Len(accounts) : accounts[i].id = account_id}
    IN IF hits = {} THEN 0 ELSE CHOOSE i \in hits : TRUE

\* SupabaseRepository.update_account with the token columns
update_token(db, account_id, t) ==
    [db EXCEPT !.accounts[RowOf(db.accounts, account_id)] =
        [@ EXCEPT !.access_token = "fresh", !.updated_at = t]]

\* SupabaseRepository.update_account with history_id, last_sync_at, updated_at
update_history(db, account_id, new_history, t) ==
    [db EXCEPT !.accounts[RowOf(db.accounts, account_id)] =
        [@ EXCEPT !.history_id = new_history, !.last_sync_at = t, !.updated_at = t]]

\* SupabaseRepository.upsert_message for the first n ids of a listing
upsert_messages(db, account_id, ids, n) ==
    [db EXCEPT !.messages = @ \cup {<<account_id, ids[k]>> : k \in 1..n}]

\* sync_account that stores the new history id before it fetches the messages
sync_account_history_first(db, account, w, t) ==
    LET f == w.fails
        raises(d) == [db |-> d, ret |-> [NoResult EXCEPT !.error = "raised"]]
        db1 == IF w.refreshed THEN update_token(db, account.id, t) ELSE db
        account1 == IF w.refreshed THEN db1.accounts[RowOf(db1.accounts, account.id)]
                    ELSE account
        old_history == account1.history_id
        new_history == IF w.history # 0 THEN w.history ELSE old_history
        db2 == update_history(db1, account1.id, new_history, t)
        done(n) == upsert_messages(db2, account1.id, w.ids, n)
    IN IF f.at \in {"token", "token_update"} THEN raises(db)
       ELSE IF f.at = "list" THEN raises(db1)
       ELSE IF f.at \in {"fetch", "upsert"} THEN raises(done(f.k - 1))
       ELSE IF f.at = "update" THEN raises(done(Len(w.ids)))
       ELSE [db |-> done(Len(w.ids)),
             ret |-> [NoResult EXCEPT !.email = account1.email, !.synced = Len(w.ids),
                                      !.history_id = new_history]]

\* SyncService.sync_account on the row `account`, in world w, at clock value t
sync_account(db, account, w, t) ==
    LET f == w.fails
        raises(d) == [db |-> d, ret |-> [NoResult EXCEPT !.error = "raised"]]
        db1 == IF w.refreshed THEN update_token(db, account.id, t) ELSE db
        account1 == IF w.refreshed THEN db1.accounts[RowOf(db1.accounts, account.id)]
                    ELSE account
        old_history == account1.history_id
        new_history == IF w.history # 0 THEN w.history ELSE old_history
        done(n) == upsert_messages(db1, account1.id, w.ids, n)
    IN IF f.at \in {"token", "token_update"} THEN raises(db)
       ELSE IF f.at = "list" THEN raises(db1)
       ELSE IF f.at \in {"fetch", "upsert"} THEN raises(done(f.k - 1))
       ELSE IF f.at = "update" THEN raises(done(Len(w.ids)))
       ELSE [db |-> update_history(done(Len(w.ids)), account1.id, new_history, t),
             ret |-> [NoResult EXCEPT !.email = account1.email, !.synced = Len(w.ids),
                                      !.history_id = new_history]]

\* sync_all outside a run: accounts is what list_accounts returned, i the
\* account the loop is at, results the list it builds, ret what it returned
IdleSync == [pc |-> "idle", accounts |-> <<>>, i |-> 0, results |-> <<>>,
             ret |-> [count |-> 0, results |-> <<>>]]

\* ------------------------------------------------------------ Gmail retries
\* An exception as _is_transient_socket_error sees it: its winerror
\* attribute (0: it has none) and its str().  The messages are the phrases
\* the classifier looks for, as the platform capitalises them, and one other.
Messages == {"timed out", "[WinError 10035]", "Non-blocking socket"}
WinErrors == {0, 10035, 10054}
Exceptions == {[winerror |-> we, message |-> m] : we \in WinErrors, m \in Messages}
NoError == [winerror |-> 0, message |-> "none"]

\* str.lower() on the messages
Lower(message) ==
    CASE message = "[WinError 10035]" -> "[winerror 10035]"
      [] message = "Non-blocking socket" -> "non-blocking socket"
      [] OTHER -> message

\* needle in text, on the lower-cased messages
Contains(text, needle) ==
    \/ needle = "winerror 10035" /\ text = "[winerror 10035]"
    \/ needle = "non-blocking socket" /\ text = "non-blocking socket"

\* GmailClient._is_transient_socket_error
_is_transient_socket_error(exc) ==
    IF exc.winerror = 10035
    THEN TRUE
    ELSE LET message == Lower(exc.message)
         IN Contains(message, "winerror 10035") \/ Contains(message, "non-blocking socket")

\* the retries a caller may ask for, and what an operation may return
RetryCounts == {0, 1, 2, 3, 4}
Values == {1, 2}

\* _run_with_retry outside a call: retries is the argument, attempt the loop
\* variable, last_error the local of that name, calls the number of times the
\* operation was invoked, ret the value returned (0: None), raised the
\* exception the call left with
IdleRetry == [pc |-> "idle", retries |-> 0, attempt |-> 0, last_error |-> NoError,
              calls |-> 0, ret |-> 0, raised |-> NoError]

\* ------------------------------------------------------------ the machine
SessionIds(ss) == {ss[i].session_id : i \in 1..Len(ss)}

\* the os.urandom runs the sessions of the store hold
RECURSIVE TotalRuns(_)
TotalRuns(ss) == IF ss = <<>> THEN 0 ELSE Len(Head(ss).bytes_data) + TotalRuns(Tail(ss))

\* the history of ranges handed out, after a call with outcome out
IssuedAfter(out) ==
    [id \in SessionIds(out.st.sessions) |->
        IF /\ out.ret.op = "consume_key_chunk"
           /\ out.ret.err = "none"
           /\ out.ret.session_id = id
        THEN out.ret.offset + out.ret.chunk_size
        ELSE IF id \in DOMAIN issued THEN issued[id] ELSE 0]

\* a call that returned at clock value t1 with outcome out
Commit(out, t1) ==
    /\ out.st.uuid_count <= MaxSessions
    /\ TotalRuns(out.st.sessions) <= MaxRuns
    /\ now' = t1
    /\ active_users' = out.st.active_users
    /\ sessions' = out.st.sessions
    /\ uuid_count' = out.st.uuid_count
    /\ issued' = IssuedAfter(out)
    /\ UNCHANGED <<lock, threads, mail_vars>>

\* the clock values a handler entered at `now` may read after its first read
Later == {t \in {now + d : d \in Drifts} : t <= MaxTime}

\* the threads that call the service: one serves the requests of UserA, one
\* those of UserB
Threads == {"a", "b"}

\* threading.RLock() as constructed: unowned
Unlocked == [owner |-> "none", count |-> 0]

\* the arguments of a call, and no call
NoCall == [op |-> "none", u |-> Blank, p |-> Blank, mb |-> 0, id |-> 0, n |-> 0]

\* a thread outside every call: stack holds the operations it has entered,
\* outermost first; pc is its position in the innermost one; call the
\* arguments of the outermost one; snap the data as it took the lock; sid the
\* session id it passes to session_status; ret what it is about to return;
\* fresh whether it asked for a session when the pair had none; got the
\* session id its last call returned if that call was such a create_session;
\* target_mb and added_mb the "estimated_target_mb" and "added_mb" of the
\* refill endpoint it serves
IdleThread == [stack |-> <<>>, pc |-> "idle", call |-> NoCall,
               snap |-> [active_users |-> <<>>, sessions |-> <<>>, uuid_count |-> 0],
               sid |-> 0, ret |-> NoRet, fresh |-> FALSE, got |-> 0,
               target_mb |-> 0, added_mb |-> 0]

Init ==
    /\ now = 0
    /\ active_users = <<>>
    /\ sessions = <<>>
    /\ uuid_count = 0
    /\ issued = <<>>
    /\ lock = Unlocked
    /\ threads = [t \in Threads |-> IdleThread]
    /\ gmail_accounts = ConnectedAccounts
    /\ gmail_messages = {}
    /\ sync = IdleSync
    /\ retry = IdleRetry

Tick ==
    /\ now < MaxTime
    /\ now' = now + 1
    /\ UNCHANGED <<active_users, sessions, uuid_count, issued, lock, threads, mail_vars>>

MarkActive(user_id, label) ==
    \E t1 \in Later :
        \E out \in {mark_active(State, user_id, label, now, t1)} : Commit(out, t1)

ListActiveUsers(exclude_user_id) ==
    \E t1 \in Later :
        \E out \in {list_active_users(State, exclude_user_id, now, t1)} : Commit(out, t1)

CreateSession(user_id, peer_user_id, target_mb) ==
    \E t1 \in Later :
        \E out \in {create_session(State, user_id, peer_user_id, target_mb, now, t1,
                                   "create_session")} : Commit(out, t1)

RefillSession(user_id, peer_user_id, add_mb) ==
    \E t1 \in Later :
        \E out \in {refill_session(State, user_id, peer_user_id, add_mb, now, t1)} :
            Commit(out, t1)

PairStatus(user_id, peer_user_id) ==
    \E t1 \in Later :
        \E out \in {pair_status(State, user_id, peer_user_id, now, t1)} : Commit(out, t1)

SessionStatus(session_id) ==
    \E out \in {session_status(State, session_id, now, "session_status")} :
        Commit(out, now)

ConsumeKeyChunk(session_id, user_id, chunk_bytes) ==
    \E out \in {consume_key_chunk(State, session_id, user_id, chunk_bytes, now)} :
        Commit(out, now)

ReadKeyChunk(session_id, user_id, offset, chunk_bytes) ==
    \E out \in {read_key_chunk(State, session_id, user_id, offset, chunk_bytes, now)} :
        Commit(out, now)

\* session ids a caller may present: every id handed out so far and one unknown
KnownIds == 1..(uuid_count + 1)

\* The calls that drive the machine.  A call that raises, or only reads,
\* changes the data by its purge at most: one call per handler, with one
\* size, is enough to drive the machine.  The properties quantify over the
\* full input sets, the sizes above max_buffer_mb included.
Next ==
    \/ Tick
    \/ \E u \in HeartbeatIds, l \in Labels : MarkActive(u, l)
    \/ ListActiveUsers(Blank)
    \/ \E u, p \in CallerIds : CreateSession(u, p, 0)
    \/ \E u, p \in CallerIds : RefillSession(u, p, 1)
    \/ PairStatus(UserA, UserB)
    \/ \E id \in KnownIds : SessionStatus(id)
    \/ \E id \in KnownIds, n \in ChunkSizes : ConsumeKeyChunk(id, UserBRaw, n)
    \/ \E id \in KnownIds, o \in {-1, 0} : ReadKeyChunk(id, UserA, o, MiB)

Spec == Init /\ [][Next]_vars

\* ------------------------------------------------- the service under threads
\* The same handlers, executed by threads one statement group at a time: the
\* argument checks before the lock, `with self._lock:`, _purge_expired(), the
\* statements up to the nested call or the return, the nested call (which
\* takes the lock again), and the end of each with-block.  create_session
\* looks for the pair's session and allocates in separate steps.  The clock
\* stands still here: expiry is the subject of Spec.

\* the user a thread calls for, and the peer it names
Self(t) == IF t = "a" THEN UserA ELSE UserBRaw
Peer(t) == IF t = "a" THEN UserBRaw ELSE UserA

\* a lock any thread may take at any time
CanAcquireAlways(t) == TRUE

\* threading.Lock: free only when nobody holds it, its owner included
CanAcquireOnce(t) == lock.owner = "none"

\* threading.RLock.acquire: free, or held by the calling thread
CanAcquire(t) == lock.owner \in {"none", t}

\* the innermost operation a thread is in
Top(t) == threads[t].stack[Len(threads[t].stack)]

\* thread t is in operation op at position pc
At(t, op, pc) ==
    /\ threads[t].stack # <<>>
    /\ Top(t) = op
    /\ threads[t].pc = pc

\* the with-blocks thread t is inside
Held(t) ==
    IF threads[t].pc \in {"idle", "acquire", "reject"}
    THEN Max(0, Len(threads[t].stack) - 1)
    ELSE Len(threads[t].stack)

\* thread t moves on as rec
Becomes(t, rec) == threads' = [threads EXCEPT ![t] = rec]

\* thread t enters a nested operation and reaches its `with self._lock:`; the
\* arguments refill_session passes to create_session have passed the same
\* checks already
Enters(t, op, sid, ret) ==
    Becomes(t, [threads[t] EXCEPT !.stack = Append(@, op), !.pc = "acquire",
                                  !.sid = sid, !.ret = ret])

\* the checks a handler makes on its arguments before it takes the lock
ArgsRejected(op, c) ==
    CASE op = "mark_active" -> Strip(c.u) = Blank
      [] op \in {"create_session", "refill_session"} ->
            \/ Strip(c.u) = Blank
            \/ Strip(c.p) = Blank
            \/ Strip(c.u) = Strip(c.p)
            \/ (op = "refill_session" /\ c.mb <= 0)
      [] op = "consume_key_chunk" -> c.n <= 0
      [] OTHER -> FALSE

\* the handler of a call as one step on the data st: what a lone caller gets
Atomic(st, c) ==
    CASE c.op = "mark_active" -> mark_active(st, c.u, Blank, now, now)
      [] c.op = "create_session" ->
            create_session(st, c.u, c.p, c.mb, now, now, "create_session")
      [] c.op = "refill_session" -> refill_session(st, c.u, c.p, c.mb, now, now)
      [] c.op = "pair_status" -> pair_status(st, c.u, c.p, now, now)
      [] c.op = "consume_key_chunk" -> consume_key_chunk(st, c.id, c.u, c.n, now)

\* calls in progress that may still allocate key material
Pending ==
    Cardinality({t \in Threads :
        /\ threads[t].stack # <<>>
        /\ threads[t].call.op \in {"create_session", "refill_session"}})

\* a client thread calls a public operation: the handler checks its
\* arguments, which touches no shared data, and raises or reaches
\* `with self._lock:`
Call(t, c) ==
    /\ threads[t].pc = "idle"
    /\ c.op \in {"create_session", "refill_session"} =>
        /\ uuid_count + Pending + 1 <= MaxSessions
        /\ TotalRuns(sessions) + Pending + 1 <= MaxRuns
    /\ Becomes(t, [IdleThread EXCEPT
            !.stack = <<c.op>>, !.call = c,
            !.pc = IF ArgsRejected(c.op, c) THEN "reject" ELSE "acquire",
            !.ret = IF ArgsRejected(c.op, c) THEN Raise(c.op, "validation") ELSE NoRet,
            !.fresh = /\ c.op = "create_session"
                      /\ ~ArgsRejected(c.op, c)
                      /\ _find_pair_session(State, Strip(c.u), Strip(c.p), now) = 0])
    /\ UNCHANGED <<now, active_users, sessions, uuid_count, issued, lock, mail_vars>>

\* the caller gets the validation error
Rejected(t) ==
    /\ threads[t].pc = "reject"
    /\ Becomes(t, IdleThread)
    /\ UNCHANGED <<now, active_users, sessions, uuid_count, issued, lock, mail_vars>>

\* `with self._lock:` entered
Acquire(t) ==
    /\ threads[t].pc = "acquire"
    /\ CanAcquire(t)
    /\ lock' = [owner |-> t, count |-> lock.count + 1]
    /\ Becomes(t, [threads[t] EXCEPT
            !.pc = "purge",
            !.snap = IF Len(threads[t].stack) = 1 THEN State ELSE @])
    /\ UNCHANGED <<now, active_users, sessions, uuid_count, issued, mail_vars>>

\* self._purge_expired(), the first statement of every with-block
Purge(t) ==
    /\ threads[t].pc = "purge"
    /\ LET st1 == _purge_expired(State, now)
       IN /\ active_users' = st1.active_users
          /\ sessions' = st1.sessions
    /\ Becomes(t, [threads[t] EXCEPT !.pc = "body"])
    /\ UNCHANGED <<now, uuid_count, issued, lock, mail_vars>>

\* mark_active: the entry is written, then list_active_users is called
BodyMarkActive(t) ==
    /\ At(t, "mark_active", "body")
    /\ LET user_id == Strip(threads[t].call.u)
           st2 == SetActive(State, [user_id |-> user_id, seen_at |-> now,
                                    label |-> user_id])
       IN active_users' = st2.active_users
    /\ Enters(t, "list_active_users", 0, NoRet)
    /\ UNCHANGED <<now, sessions, uuid_count, issued, lock, mail_vars>>

\* list_active_users on behalf of mark_active: the list is built and handed
\* back with the caller's id
BodyListActiveUsers(t) ==
    /\ At(t, "list_active_users", "body")
    /\ LET user_id == Strip(threads[t].call.u)
           peers == list_active_users(State, user_id, now, now)
       IN Becomes(t, [threads[t] EXCEPT
            !.pc = "exit",
            !.ret = [peers.ret EXCEPT !.op = threads[t].stack[1],
                                      !.user_a = user_id]])
    /\ UNCHANGED <<now, active_users, sessions, uuid_count, issued, lock, mail_vars>>

\* create_session: the presence test and the search for the pair's session
BodyCreateSession(t) ==
    /\ At(t, "create_session", "body")
    /\ LET user_id == Strip(threads[t].call.u)
           peer_user_id == Strip(threads[t].call.p)
           existing == _find_pair_session(State, user_id, peer_user_id, now)
       IN IF ~IsActive(State, user_id) \/ ~IsActive(State, peer_user_id)
          THEN Becomes(t, [threads[t] EXCEPT
                    !.pc = "exit", !.ret = Raise(threads[t].stack[1], "policy")])
          ELSE IF existing # 0 /\ available_bytes(sessions[existing]) > 0
          THEN Enters(t, "session_status", sessions[existing].session_id, NoRet)
          ELSE Becomes(t, [threads[t] EXCEPT !.pc = "alloc"])
    /\ UNCHANGED <<now, active_users, sessions, uuid_count, issued, lock, mail_vars>>

\* create_session: uuid4, os.urandom, the new QKDBuffer stored under its id,
\* then session_status is called
AllocSession(t) ==
    /\ At(t, "create_session", "alloc")
    /\ LET c == threads[t].call
           pair == _pair_key(Strip(c.u), Strip(c.p))
           target_mb == IF c.op = "refill_session" THEN Min(c.mb, max_buffer_mb) ELSE c.mb
           requested_bytes == Max(1, Min(target_mb, max_buffer_mb)) * MiB
           session_id == uuid_count + 1
           session == [session_id |-> session_id,
                       user_a |-> pair[1],
                       user_b |-> pair[2],
                       total_bytes |-> requested_bytes,
                       created_at |-> now,
                       expires_at |-> now + session_ttl_seconds,
                       bytes_data |-> urandom(session_id, 1, requested_bytes),
                       consumed_bytes |-> 0]
       IN /\ sessions' = Append(sessions, session)
          /\ uuid_count' = session_id
          /\ Enters(t, "session_status", session_id, NoRet)
    /\ UNCHANGED <<now, active_users, issued, lock, mail_vars>>

\* refill_session: the presence test, then create_session when the pair has
\* no session, else the buffer is extended and session_status is called
BodyRefillSession(t) ==
    /\ At(t, "refill_session", "body")
    /\ LET c == threads[t].call
           user_id == Strip(c.u)
           peer_user_id == Strip(c.p)
           add_bytes == Min(c.mb, max_buffer_mb) * MiB
           i == _find_pair_session(State, user_id, peer_user_id, now)
           session == sessions[i]
           refilled == [session EXCEPT
                           !.bytes_data =
                               @ \o urandom(session.session_id, Len(@) + 1, add_bytes),
                           !.total_bytes = @ + add_bytes,
                           !.expires_at = now + session_ttl_seconds]
       IN IF ~IsActive(State, user_id) \/ ~IsActive(State, peer_user_id)
          THEN /\ Becomes(t, [threads[t] EXCEPT
                        !.pc = "exit", !.ret = Raise("refill_session", "policy")])
               /\ UNCHANGED sessions
          ELSE IF i = 0
          THEN /\ Enters(t, "create_session", 0, NoRet)
               /\ UNCHANGED sessions
          ELSE /\ sessions' = [sessions EXCEPT ![i] = refilled]
               /\ Enters(t, "session_status", session.session_id, NoRet)
    /\ UNCHANGED <<now, active_users, uuid_count, issued, lock, mail_vars>>

\* pair_status: None when the pair has no session, else session_status
BodyPairStatus(t) ==
    /\ At(t, "pair_status", "body")
    /\ LET i == _find_pair_session(State, threads[t].call.u, threads[t].call.p, now)
       IN IF i = 0
          THEN Becomes(t, [threads[t] EXCEPT
                    !.pc = "exit", !.ret = [NoRet EXCEPT !.op = "pair_status"]])
          ELSE Enters(t, "session_status", sessions[i].session_id, NoRet)
    /\ UNCHANGED <<now, active_users, sessions, uuid_count, issued, lock, mail_vars>>

\* session_status on behalf of the operation that called it
BodySessionStatus(t) ==
    /\ At(t, "session_status", "body")
    /\ Becomes(t, [threads[t] EXCEPT
            !.pc = "exit",
            !.ret = session_status(State, threads[t].sid, now, threads[t].stack[1]).ret])
    /\ UNCHANGED <<now, active_users, sessions, uuid_count, issued, lock, mail_vars>>

\* consume_key_chunk: lookup, membership test, consume, the chunk dict
BodyConsumeKeyChunk(t) ==
    /\ At(t, "consume_key_chunk", "body")
    /\ \E out \in {consume_key_chunk(State, threads[t].call.id, threads[t].call.u,
                                      threads[t].call.n, now)} :
        /\ sessions' = out.st.sessions
        /\ Becomes(t, [threads[t] EXCEPT !.pc = "exit", !.ret = out.ret])
    /\ UNCHANGED <<now, active_users, uuid_count, issued, lock, mail_vars>>

\* the end of a with-block, by return or by exception: the lock is released
\* once; the value or the exception passes to the calling frame, and from the
\* outermost frame to the client
Exit(t) ==
    /\ threads[t].pc = "exit"
    /\ lock' = IF lock.count <= 1 THEN Unlocked
               ELSE [lock EXCEPT !.count = @ - 1]
    /\ IF Len(threads[t].stack) = 1
       THEN Becomes(t, [IdleThread EXCEPT
                !.got = IF /\ threads[t].fresh
                           /\ threads[t].ret.err = "none"
                        THEN threads[t].ret.session_id ELSE 0])
       ELSE Becomes(t, [threads[t] EXCEPT
                !.stack = SubSeq(@, 1, Len(@) - 1)])
    /\ UNCHANGED <<now, active_users, sessions, uuid_count, issued, mail_vars>>

\* the calls a thread makes: a heartbeat, create_session for its pair and
\* with itself as peer, a refill, pair_status, and consume_key_chunk of more
\* than a session holds, on every session id handed out (on an unknown one
\* while there is none)
CallsOf(t) ==
    {[NoCall EXCEPT !.op = "mark_active", !.u = Self(t)],
     [NoCall EXCEPT !.op = "create_session", !.u = Self(t), !.p = Peer(t)],
     [NoCall EXCEPT !.op = "create_session", !.u = Self(t), !.p = Self(t)],
     [NoCall EXCEPT !.op = "refill_session", !.u = Self(t), !.p = Peer(t), !.mb = 1],
     [NoCall EXCEPT !.op = "pair_status", !.u = Strip(Self(t)), !.p = Strip(Peer(t))]}
    \cup {[NoCall EXCEPT !.op = "consume_key_chunk", !.id = id, !.u = Self(t), !.n = Huge] :
            id \in 1..Max(1, uuid_count)}

\* the steps of one thread inside a call
Run(t) ==
    \/ Rejected(t)
    \/ Purge(t)
    \/ BodyMarkActive(t)
    \/ BodyListActiveUsers(t)
    \/ BodyCreateSession(t)
    \/ AllocSession(t)
    \/ BodyRefillSession(t)
    \/ BodyPairStatus(t)
    \/ BodySessionStatus(t)
    \/ BodyConsumeKeyChunk(t)
    \/ Exit(t)

ThreadNext ==
    \/ \E t \in Threads : \E c \in CallsOf(t) : Call(t, c)
    \/ \E t \in Threads : Acquire(t)
    \/ \E t \in Threads : Run(t)

ThreadSpec == Init /\ [][ThreadNext]_vars

\* Scheduling: a thread that can take a step inside a call eventually takes
\* it, and a thread that waits for the lock gets it if it is free again and
\* again.  Clients need not call.
FairThreadSpec ==
    /\ ThreadSpec
    /\ \A t \in Threads : WF_vars(Run(t))
    /\ \A t \in Threads : SF_vars(Acquire(t))

\* ------------------------------------------------------- one client session
\* The calls of the end-to-end run, in any order, with the clock standing
\* still: heartbeats of both users, create_session for 1 MiB, and
\* consume_key_chunk of FirstChunk and of SecondChunk bytes.
FirstChunk == 2000
SecondChunk == 2000000

\* a call whose reads of the clock all return `now`
Returns(out) == Commit(out, now)

ScenarioHeartbeat(user_id) ==
    \E out \in {mark_active(State, user_id, Blank, now, now)} : Returns(out)

ScenarioCreate ==
    \E out \in {create_session(State, UserA, UserB, 1, now, now, "create_session")} :
        Returns(out)

ScenarioConsume(session_id, chunk_bytes) ==
    \E out \in {consume_key_chunk(State, session_id, UserA, chunk_bytes, now)} :
        Returns(out)

ScenarioNext ==
    \/ \E u \in {UserA, UserB} : ScenarioHeartbeat(u)
    \/ ScenarioCreate
    \/ \E id \in KnownIds, n \in {FirstChunk, SecondChunk} : ScenarioConsume(id, n)

ScenarioSpec == Init /\ [][ScenarioNext]_vars

\* ------------------------------------------------------ the refill endpoint
\* POST /qkd/session/refill, served by the threads of the server's pool: the
\* handler calls pair_status and then refill_session, each one atomic under
\* the service's lock, and other requests and the clock move in between.

\* math.ceil(a / b) for a >= 0
CeilDiv(a, b) == (a + b - 1) \div b

\* what repo.estimate_pair_mail_bytes may return: no mail, or a MiB of it
EstimatedBytes == {0, MiB}

\* the requests thread t serves: QKDRefillRequest carries the ids as sent,
\* and target_mb is an integer of the client's choice
RefillRequests(t) ==
    {[NoCall EXCEPT !.op = "qkd_refill_session", !.u = Strip(Self(t)), !.p = p, !.mb = 1] :
        p \in {Strip(Peer(t)), Peer(t)}}

\* target_mb of the handler
TargetMb(req_target_mb, estimated_bytes) ==
    LET estimated_mb == Max(1, CeilDiv(estimated_bytes * 2, MiB))
    IN Max(req_target_mb, estimated_mb)

\* add_mb of the handler, from the status dict pair_status returned (or None)
AddMb(target_mb, current) ==
    LET available == IF current.found THEN current.available_bytes ELSE 0
        desired_bytes == target_mb * MiB
        missing_bytes == Max(0, desired_bytes - available)
    IN IF missing_bytes > 0 THEN Max(1, CeilDiv(missing_bytes, MiB)) ELSE 0

\* a service call of thread t returned at clock value t1 with outcome out,
\* and leaves the thread as rec
CommitBy(t, out, t1, rec) ==
    /\ out.st.uuid_count <= MaxSessions
    /\ TotalRuns(out.st.sessions) <= MaxRuns
    /\ now' = t1
    /\ active_users' = out.st.active_users
    /\ sessions' = out.st.sessions
    /\ uuid_count' = out.st.uuid_count
    /\ issued' = IssuedAfter(out)
    /\ threads' = [threads EXCEPT ![t] = rec]
    /\ UNCHANGED <<lock, mail_vars>>

\* the handler up to and including its call of pair_status
EndpointRead(t) ==
    /\ threads[t].pc = "idle"
    /\ \E req \in RefillRequests(t), estimated_bytes \in EstimatedBytes, t1 \in Later :
        \E out \in {pair_status(State, req.u, req.p, now, t1)} :
            CommitBy(t, out, t1,
                     [IdleThread EXCEPT !.pc = "refill", !.call = req, !.ret = out.ret,
                                        !.target_mb = TargetMb(req.mb, estimated_bytes)])

\* the rest of the handler: it answers with the status it read, or calls
\* refill_session and answers with what that returns; a ValueError becomes
\* the 400 response
EndpointRefill(t) ==
    /\ threads[t].pc = "refill"
    /\ LET current == threads[t].ret
           req == threads[t].call
           add_mb == AddMb(threads[t].target_mb, current)
       IN IF add_mb = 0 /\ current.found
          THEN /\ threads' = [threads EXCEPT ![t].pc = "idle", ![t].added_mb = 0]
               /\ UNCHANGED <<now, active_users, sessions, uuid_count, issued, lock, mail_vars>>
          ELSE \E t1 \in Later :
                \E out \in {refill_session(State, req.u, req.p, Max(1, add_mb), now, t1)} :
                    CommitBy(t, out, t1,
                             [threads[t] EXCEPT !.pc = "idle", !.ret = out.ret,
                                                !.added_mb = Max(1, add_mb)])

\* the other requests of the pair: heartbeats and withdrawals of key bytes
EndpointNext ==
    \/ Tick
    \/ \E u \in {UserA, UserB} : MarkActive(u, Blank)
    \/ \E id \in 1..Max(1, uuid_count) : ConsumeKeyChunk(id, UserA, Huge)
    \/ EndpointRead("a")
    \/ EndpointRefill("a")

EndpointSpec == Init /\ [][EndpointNext]_vars

\* -------------------------------------------------------------- one sync run
\* sync_all, one iteration of its loop at a time, with the clock standing
\* still.
QkdVars == <<active_users, sessions, uuid_count, issued, lock, threads>>

\* the entry sync_all appends for an account: sync_account's result, or the
\* error dict of the except branch
ResultOf(account, out) ==
    IF out.ret.error = "none"
    THEN out.ret
    ELSE [NoResult EXCEPT !.email = account.email, !.error = out.ret.error]

\* accounts = self.repo.list_accounts(); results = []
SyncAllList ==
    /\ sync.pc = "idle"
    /\ sync' = [IdleSync EXCEPT !.pc = "loop", !.accounts = gmail_accounts, !.i = 1]
    /\ UNCHANGED <<now, QkdVars, gmail_accounts, gmail_messages, retry>>

\* one iteration of the loop: sync_account on the next account
SyncAllAccount ==
    /\ sync.pc = "loop"
    /\ sync.i <= Len(sync.accounts)
    /\ \E w \in SyncWorlds :
        \E out \in {sync_account(Tables, sync.accounts[sync.i], w, now)} :
            /\ gmail_accounts' = out.db.accounts
            /\ gmail_messages' = out.db.messages
            /\ sync' = [sync EXCEPT !.i = @ + 1,
                                    !.results = Append(@, ResultOf(sync.accounts[sync.i], out))]
    /\ UNCHANGED <<now, QkdVars, retry>>

\* return {"count": len(accounts), "results": results}
SyncAllReturn ==
    /\ sync.pc = "loop"
    /\ sync.i > Len(sync.accounts)
    /\ sync' = [sync EXCEPT !.pc = "idle",
                            !.ret = [count |-> Len(sync.accounts), results |-> sync.results]]
    /\ UNCHANGED <<now, QkdVars, gmail_accounts, gmail_messages, retry>>

SyncNext ==
    \/ SyncAllList
    \/ SyncAllAccount
    \/ SyncAllReturn

SyncSpec == Init /\ [][SyncNext]_vars

\* ------------------------------------------------------ one call with retries
\* _run_with_retry, one statement group at a time; the operation answers
\* each invocation with a value or with an exception.
OtherVars == <<now, QkdVars, gmail_accounts, gmail_messages, sync>>

\* a caller enters _run_with_retry(operation, retries): last_error = None
RetryCall(retries) ==
    /\ retry.pc \in {"idle", "returned", "raised"}
    /\ retry' = [IdleRetry EXCEPT !.pc = "loop", !.retries = retries]
    /\ UNCHANGED OtherVars

\* an iteration of the loop in which operation() returns
RetryReturns ==
    /\ retry.pc = "loop"
    /\ retry.attempt < retry.retries
    /\ \E v \in Values :
        retry' = [retry EXCEPT !.pc = "returned", !.calls = @ + 1, !.ret = v]
    /\ UNCHANGED OtherVars

\* an except branch that gives up on the last attempt only
GivesUpOnLastOnly(exc, attempt, retries) == attempt = retries - 1

\* the condition of the bare raise in the except branch
GivesUp(exc, attempt, retries) ==
    \/ ~_is_transient_socket_error(exc)
    \/ attempt = retries - 1

\* an iteration of the loop in which operation() raises: the except branch
RetryRaises ==
    /\ retry.pc = "loop"
    /\ retry.attempt < retry.retries
    /\ \E exc \in Exceptions :
        retry' = IF GivesUp(exc, retry.attempt, retry.retries)
                 THEN [retry EXCEPT !.pc = "raised", !.calls = @ + 1,
                                    !.last_error = exc, !.raised = exc]
                 ELSE [retry EXCEPT !.pc = "sleep", !.calls = @ + 1, !.last_error = exc]
    /\ UNCHANGED OtherVars

\* time.sleep(delay_seconds * (attempt + 1)) returns: the next iteration
RetrySleep ==
    /\ retry.pc = "sleep"
    /\ retry' = [retry EXCEPT !.pc = "loop", !.attempt = @ + 1]
    /\ UNCHANGED OtherVars

\* the loop is over: raise last_error if there is one, else fall off the end
RetryExhausted ==
    /\ retry.pc = "loop"
    /\ retry.attempt >= retry.retries
    /\ retry' = IF retry.last_error # NoError
                THEN [retry EXCEPT !.pc = "raised", !.raised = retry.last_error]
                ELSE [retry EXCEPT !.pc = "returned", !.ret = 0]
    /\ UNCHANGED OtherVars

\* the steps inside a call
RetryRun ==
    \/ RetryReturns
    \/ RetryRaises
    \/ RetrySleep
    \/ RetryExhausted

RetryNext ==
    \/ \E retries \in RetryCounts : RetryCall(retries)
    \/ RetryRun

RetrySpec == Init /\ [][RetryNext]_vars

\* the calling thread keeps running: the operation and the sleep return
FairRetrySpec ==
    /\ RetrySpec
    /\ WF_vars(RetryRun)

\* ------------------------------------------------------------ properties
\* The inputs the properties range over: the argument pairs of a call for
\* (A, B) in both orders and spellings, for a pair with an absent party, for
\* equal ids and for a blank id; sizes below and above the clamp
IdPairs == {<<UserA, UserBRaw>>, <<UserBRaw, UserA>>, <<UserA, UserC>>,
            <<UserC, UserA>>, <<UserA, UserA>>, <<Blank, UserA>>}
PlainPairs == {<<UserA, UserB>>, <<UserB, UserA>>, <<UserA, UserC>>,
               <<UserC, UserA>>, <<UserA, UserBRaw>>}
SizeMbs == {0, max_buffer_mb + 1}
ReadOffsets == {0, Half, MiB}
ReadSizes == {Half, MiB, Huge}
\* <<offset, chunk_bytes>> of reads that fail validation, succeed, end beyond
\* the session
ReadArgs == {<<-1, Half>>, <<0, 0>>, <<0, Half>>, <<Half, MiB>>, <<MiB, Huge>>}

\* the store as the next call finds it after its purge
Purged == _purge_expired(State, now)

Members(session) == {session.user_a, session.user_b}

\* user_id heartbeated no more than presence_ttl_seconds before t
PresentAt(user_id, t) ==
    \E i \in 1..Len(active_users) :
        /\ active_users[i].user_id = user_id
        /\ t - active_users[i].seen_at <= presence_ttl_seconds

\* what C1 asks of the outcome of a call that returns a session status
GoodStatus(out) ==
    (out.ret.err = "none" /\ out.ret.found) =>
        /\ out.ret.available_bytes = out.ret.total_bytes - out.ret.consumed_bytes
        /\ 0 <= out.ret.consumed_bytes
        /\ out.ret.consumed_bytes <= out.ret.total_bytes

\* C1: every session of the store has 0 <= consumed_bytes <= total_bytes, and
\* every status a call returns reports available_bytes = total_bytes -
\* consumed_bytes for a session that again has 0 <= consumed_bytes <= total_bytes
C1_CursorWithinBounds ==
    /\ \A i \in 1..Len(sessions) :
        /\ 0 <= sessions[i].consumed_bytes
        /\ sessions[i].consumed_bytes <= sessions[i].total_bytes
    /\ \A id \in KnownIds : GoodStatus(session_status(State, id, now, "session_status"))
    /\ \A pair \in PlainPairs, t1 \in Later :
        GoodStatus(pair_status(State, pair[1], pair[2], now, t1))
    /\ \A pair \in IdPairs, mb \in SizeMbs, t1 \in Later :
        /\ GoodStatus(create_session(State, pair[1], pair[2], mb, now, t1, "create_session"))
        /\ GoodStatus(refill_session(State, pair[1], pair[2], mb, now, t1))

\* a session consumed in part and one consumed to the end are in the store,
\* and a status call reports the bytes left
C1_Witness ==
    /\ \E i \in 1..Len(sessions) :
        /\ 0 < sessions[i].consumed_bytes
        /\ sessions[i].consumed_bytes < sessions[i].total_bytes
        /\ LET out == session_status(State, sessions[i].session_id, now, "session_status")
           IN out.ret.err = "none" /\ out.ret.available_bytes > 0
    /\ \E i \in 1..Len(sessions) : sessions[i].consumed_bytes = sessions[i].total_bytes

\* C2: for each unordered pair of users the store holds at most one live
\* (non-expired) session
C2_OneLiveSessionPerPair ==
    \A i, j \in 1..Len(sessions) :
        (/\ i # j
         /\ sessions[i].expires_at >= now
         /\ sessions[j].expires_at >= now)
        => _pair_key(sessions[i].user_a, sessions[i].user_b)
            # _pair_key(sessions[j].user_a, sessions[j].user_b)

\* C3: when create_session returns session S and the very next call is
\* create_session for the same pair, in either order, with both parties still
\* present and S unexpired with bytes available, that call returns S again
C3_CreateTwiceSameSession ==
    \A pair \in IdPairs, mb \in SizeMbs, mb2 \in SizeMbs, t1 \in Later :
        LET u == pair[1]
            p == pair[2]
            first == create_session(State, u, p, mb, now, t1, "create_session")
            second == create_session(first.st, p, u, mb2, t1, t1, "create_session")
            again == create_session(first.st, u, p, mb2, t1, t1, "create_session")
            at == SessionAt(_purge_expired(first.st, t1), first.ret.session_id)
        IN (/\ first.ret.err = "none"
            /\ IsActive(_purge_expired(first.st, t1), Strip(u))
            /\ IsActive(_purge_expired(first.st, t1), Strip(p))
            /\ at # 0
            /\ available_bytes(_purge_expired(first.st, t1).sessions[at]) > 0)
           => /\ second.ret.err = "none"
              /\ second.ret.session_id = first.ret.session_id
              /\ again.ret.err = "none"
              /\ again.ret.session_id = first.ret.session_id

\* what two outcomes for the two orders of a pair must agree on: the error,
\* or the pair and size of the session returned
SameAnswer(x, y) ==
    /\ x.ret.err = y.ret.err
    /\ x.ret.found = y.ret.found
    /\ x.ret.user_a = y.ret.user_a
    /\ x.ret.user_b = y.ret.user_b
    /\ x.ret.total_bytes = y.ret.total_bytes
    /\ x.st.uuid_count = y.st.uuid_count

\* the call returned a session that was in the store before it
Reused(x) == x.ret.err = "none" /\ x.ret.found /\ x.st.uuid_count = uuid_count

\* C4: every stored session has user_a < user_b, and create_session,
\* refill_session and pair_status give the same answer for (A, B) and
\* (B, A): the same error or a status of the same pair and size, and the
\* same session_id when the session returned was already in the store
C4_PairOrderIndependent ==
    /\ \A i \in 1..Len(sessions) : StrLess(sessions[i].user_a, sessions[i].user_b)
    /\ \A pair \in IdPairs, mb \in SizeMbs, t1 \in Later :
        LET u == pair[1]
            p == pair[2]
            ab == create_session(State, u, p, mb, now, t1, "create_session")
            ba == create_session(State, p, u, mb, now, t1, "create_session")
            rab == refill_session(State, u, p, mb, now, t1)
            rba == refill_session(State, p, u, mb, now, t1)
        IN /\ SameAnswer(ab, ba)
           /\ Reused(ab) => ab.ret.session_id = ba.ret.session_id
           /\ SameAnswer(rab, rba)
           /\ Reused(rab) => rab.ret.session_id = rba.ret.session_id
    /\ \A pair \in PlainPairs, t1 \in Later :
        pair_status(State, pair[1], pair[2], now, t1).ret
            = pair_status(State, pair[2], pair[1], now, t1).ret

\* a session of (A, B) is in the store with bytes left, and create_session,
\* refill_session and pair_status called as (B, A) return it
C4_Witness ==
    \E i \in 1..Len(sessions) :
        /\ available_bytes(sessions[i]) > 0
        /\ sessions[i].user_a = UserA
        /\ sessions[i].user_b = UserB
        /\ LET ba == create_session(State, UserBRaw, UserA, 1, now, now, "create_session")
               rba == refill_session(State, UserBRaw, UserA, 1, now, now)
               pba == pair_status(State, UserB, UserA, now, now)
           IN /\ Reused(ba) /\ ba.ret.session_id = sessions[i].session_id
              /\ Reused(rba) /\ rba.ret.session_id = sessions[i].session_id
              /\ pba.ret.found /\ pba.ret.session_id = sessions[i].session_id

\* C5: create_session returns a session only if both ids have a presence
\* entry no older than presence_ttl_seconds when it is called; if either is
\* missing or aged out it raises the policy error, and no session is created
\* or changed
C5_CreateNeedsBothPresent ==
    LET purged == Purged
    IN \A pair \in IdPairs, mb \in SizeMbs, t1 \in Later :
        LET u == pair[1]
            p == pair[2]
            out == create_session(State, u, p, mb, now, t1, "create_session")
            both == PresentAt(Strip(u), now) /\ PresentAt(Strip(p), now)
        IN (Strip(u) # Blank /\ Strip(p) # Blank /\ Strip(u) # Strip(p)) =>
            /\ out.ret.err = "none" => both
            /\ ~both =>
                /\ out.ret.err = "policy"
                /\ out.st.sessions = purged.sessions
                /\ out.st.uuid_count = uuid_count

\* UserA is present, the entry of UserB is still stored but aged out, a live
\* session exists, and create_session raises the policy error
C5_Witness ==
    /\ PresentAt(UserA, now)
    /\ IsActive(State, UserB)
    /\ ~PresentAt(UserB, now)
    /\ Purged.sessions # <<>>
    /\ create_session(State, UserA, UserBRaw, 1, now, now, "create_session").ret.err
        = "policy"

\* C6: consume_key_chunk by a member, for n > 0 bytes of a live session with
\* a > 0 bytes available, returns min(n, a) bytes at the offset the cursor had,
\* moves the cursor by min(n, a) and leaves total_bytes unchanged
C6_ConsumeReturnsMin ==
    LET purged == Purged
    IN \A i \in 1..Len(purged.sessions), u \in CallerIds, n \in ChunkSizes :
        LET session == purged.sessions[i]
            a == session.total_bytes - session.consumed_bytes
            out == consume_key_chunk(State, session.session_id, u, n, now)
            j == SessionAt(out.st, session.session_id)
        IN (n > 0 /\ Strip(u) \in Members(session) /\ a > 0) =>
            /\ out.ret.err = "none"
            /\ out.ret.chunk_size = Min(n, a)
            /\ out.ret.offset = session.consumed_bytes
            /\ out.ret.consumed_bytes = session.consumed_bytes + Min(n, a)
            /\ out.ret.available_bytes = a - Min(n, a)
            /\ j # 0
            /\ out.st.sessions[j].consumed_bytes = session.consumed_bytes + Min(n, a)
            /\ out.st.sessions[j].total_bytes = session.total_bytes

\* a session consumed in part: a request for more than is left is clipped,
\* one for less is served in full
C6_Witness ==
    \E i \in 1..Len(Purged.sessions) :
        LET session == Purged.sessions[i]
            a == session.total_bytes - session.consumed_bytes
        IN /\ session.consumed_bytes > 0
           /\ Half < a
           /\ consume_key_chunk(State, session.session_id, UserA, Huge, now)
                .ret.chunk_size = a
           /\ consume_key_chunk(State, session.session_id, UserA, Half, now)
                .ret.chunk_size = Half

\* the session with this id in a store, as a set of at most one element
SessionsWithId(ss, id) == {ss[i] : i \in {k \in 1..Len(ss) : ss[k].session_id = id}}

\* C7: consume_key_chunk by a member on a live session whose cursor is at
\* total_bytes raises the exhaustion error and leaves the session as it was;
\* and over any step such a session stays exhausted unless its total_bytes grew
C7_ExhaustedUntilRefill ==
    /\ [](LET purged == Purged
          IN \A i \in 1..Len(purged.sessions), u \in CallerIds, n \in ChunkSizes :
            LET session == purged.sessions[i]
                out == consume_key_chunk(State, session.session_id, u, n, now)
            IN (/\ n > 0
                /\ Strip(u) \in Members(session)
                /\ session.consumed_bytes = session.total_bytes)
               => /\ out.ret.err = "exhaustion"
                  /\ out.st.sessions = purged.sessions)
    /\ [][\A id \in 1..uuid_count :
            \A old \in SessionsWithId(sessions, id), new \in SessionsWithId(sessions', id) :
                (old.consumed_bytes = old.total_bytes /\ new.total_bytes <= old.total_bytes)
                => new.consumed_bytes = new.total_bytes]_vars

\* a live exhausted session: consume_key_chunk raises the exhaustion error
C7_Witness ==
    \E i \in 1..Len(Purged.sessions) :
        /\ Purged.sessions[i].consumed_bytes = Purged.sessions[i].total_bytes
        /\ Len(Purged.sessions[i].bytes_data) = 2
        /\ consume_key_chunk(State, Purged.sessions[i].session_id, UserA, Half, now)
            .ret.err = "exhaustion"

\* C8: the ranges consume_key_chunk hands out of a session are contiguous:
\* each successful call returns a non-empty range that starts where the
\* previous one ended, the first at 0
C8_ConsumedRangesContiguous ==
    /\ \A id \in DOMAIN issued : issued[id] >= 0
    /\ LET purged == Purged
       IN \A i \in 1..Len(purged.sessions), u \in CallerIds, n \in ChunkSizes :
        LET session == purged.sessions[i]
            out == consume_key_chunk(State, session.session_id, u, n, now)
        IN out.ret.err = "none" =>
            /\ out.ret.offset = issued[session.session_id]
            /\ out.ret.chunk_size > 0

\* a refilled session with ranges handed out before and after the refill, and
\* bytes left for the next call
C8_Witness ==
    \E i \in 1..Len(Purged.sessions) :
        LET session == Purged.sessions[i]
        IN /\ Len(session.bytes_data) = 2
           /\ issued[session.session_id] > session.bytes_data[1].len
           /\ consume_key_chunk(State, session.session_id, UserBRaw, Half, now)
                .ret.err = "none"

\* C9: read_key_chunk by a member of a live session, with offset >= 0 and
\* n > 0, succeeds exactly when offset + n <= total_bytes, then returns n
\* bytes, and otherwise raises the out-of-bounds error
C9_ReadWithinBounds ==
    LET purged == Purged
    IN \A i \in 1..Len(purged.sessions), u \in CallerIds, o \in ReadOffsets, n \in ReadSizes :
        LET session == purged.sessions[i]
            out == read_key_chunk(State, session.session_id, u, o, n, now)
        IN Strip(u) \in Members(session) =>
            /\ (out.ret.err = "none") <=> (o + n <= session.total_bytes)
            /\ out.ret.err = "none" => (out.ret.chunk_size = n /\ out.ret.offset = o)
            /\ o + n > session.total_bytes => out.ret.err = "out_of_bounds"

\* a refilled session: a read across the two runs succeeds, one that ends
\* beyond total_bytes raises the out-of-bounds error
C9_Witness ==
    \E i \in 1..Len(Purged.sessions) :
        LET session == Purged.sessions[i]
        IN /\ session.total_bytes = 2 * MiB
           /\ Len(read_key_chunk(State, session.session_id, UserA, Half, MiB, now)
                .ret.chunk) = 2
           /\ read_key_chunk(State, session.session_id, UserA, MiB, Huge, now)
                .ret.err = "out_of_bounds"

\* C10: read_key_chunk, whatever it returns or raises, leaves every live
\* session as it was (cursor, size, expiry, bytes) and creates or removes no
\* session other than by the purge
C10_ReadChangesNothing ==
    LET purged == Purged
    IN \A id \in KnownIds, u \in {UserA, UserC}, args \in ReadArgs :
        LET out == read_key_chunk(State, id, u, args[1], args[2], now)
        IN /\ out.st.sessions \in {sessions, purged.sessions}
           /\ out.st.active_users \in {active_users, purged.active_users}
           /\ out.st.uuid_count = uuid_count

\* a session consumed in part, and a read of it that succeeds
C10_Witness ==
    \E i \in 1..Len(Purged.sessions) :
        LET session == Purged.sessions[i]
            out == read_key_chunk(State, session.session_id, UserBRaw, 0, Half, now)
        IN /\ 0 < session.consumed_bytes
           /\ session.consumed_bytes < session.total_bytes
           /\ out.ret.err = "none"
           /\ out.st.sessions = Purged.sessions

\* the store with the cursor of its i-th session set to c
WithCursor(st, i, c) == [st EXCEPT !.sessions[i].consumed_bytes = c]

\* what a read call answers, apart from the counts it reports: the error, or
\* the session, the range and its bytes
ReadAnswer(out) ==
    <<out.ret.err, out.ret.session_id, out.ret.offset, out.ret.chunk_size, out.ret.chunk>>

\* C11 as stated: for two states of a session that differ only in
\* consumed_bytes, the same read_key_chunk call gives the same result
C11_ReadSameResult ==
    LET purged == Purged
    IN \A i \in 1..Len(purged.sessions), u \in CallerIds, args \in ReadArgs :
        LET session == purged.sessions[i]
        IN \A c \in {0, Half, session.total_bytes} :
            read_key_chunk(WithCursor(purged, i, c), session.session_id, u,
                           args[1], args[2], now).ret
            = read_key_chunk(purged, session.session_id, u, args[1], args[2], now).ret

\* C11: for two states of a session that differ only in consumed_bytes, the
\* same read_key_chunk call fails with the same error or returns the same
\* range and bytes (only the available_bytes and consumed_bytes it reports
\* follow the cursor); and the range a consume_key_chunk call handed out,
\* which then lies below the cursor, is readable and holds the same bytes,
\* also after a refill
C11_ReadIgnoresCursor ==
    [](
    LET purged == Purged
    IN \A i \in 1..Len(purged.sessions), u \in CallerIds :
        LET session == purged.sessions[i]
            id == session.session_id
        IN /\ \A c \in {0, Half, session.total_bytes}, args \in ReadArgs :
                ReadAnswer(read_key_chunk(WithCursor(purged, i, c), id, u,
                                          args[1], args[2], now))
                = ReadAnswer(read_key_chunk(purged, id, u, args[1], args[2], now))
           /\ \A n \in ChunkSizes :
                LET out == consume_key_chunk(State, id, u, n, now)
                    refilled == refill_session(out.st, UserA, UserBRaw, 1, now, now)
                IN out.ret.err = "none" =>
                    /\ out.ret.offset + out.ret.chunk_size <= out.ret.consumed_bytes
                    /\ \A mid \in {out.st, refilled.st} :
                        LET back == read_key_chunk(mid, id, u, out.ret.offset,
                                                   out.ret.chunk_size, now)
                        IN /\ back.ret.err = "none"
                           /\ back.ret.chunk = out.ret.chunk
    )

\* a refilled session consumed to its end: a read of its first half MiB
\* succeeds and returns the bytes of the first os.urandom call
C11_Witness ==
    \E i \in 1..Len(Purged.sessions) :
        LET session == Purged.sessions[i]
            out == read_key_chunk(State, session.session_id, UserA, 0, Half, now)
        IN /\ Len(session.bytes_data) = 2
           /\ session.consumed_bytes = session.total_bytes
           /\ out.ret.err = "none"
           /\ out.ret.chunk = << [src |-> <<session.session_id, 1>>, from |-> 0, to |-> Half] >>

\* ids of callers that are no member of a session of (A, B): a third user,
\* plain and padded with blanks, and the blank id
Outsiders == {UserC, <<0, 3, 0>>, Blank, <<0>>}

\* C12: consume_key_chunk and read_key_chunk on a live session, called with a
\* user_id that after trimming is neither user_a nor user_b, raise the
\* validation error, return no bytes and leave every session as it was
C12_OnlyMembersGetBytes ==
    [](
    LET purged == Purged
    IN \A i \in 1..Len(purged.sessions), u \in Outsiders :
        LET session == purged.sessions[i]
        IN Strip(u) \notin Members(session) =>
            /\ \A n \in ChunkSizes :
                LET out == consume_key_chunk(State, session.session_id, u, n, now)
                IN /\ out.ret.err = "validation"
                   /\ out.ret.chunk = <<>>
                   /\ out.ret.chunk_size = 0
                   /\ out.st.sessions \in {sessions, purged.sessions}
            /\ \A args \in ReadArgs :
                LET out == read_key_chunk(State, session.session_id, u, args[1], args[2], now)
                IN /\ out.ret.err = "validation"
                   /\ out.ret.chunk = <<>>
                   /\ out.ret.chunk_size = 0
                   /\ out.st.sessions \in {sessions, purged.sessions}
    )

\* a live session of (A, B) with bytes consumed and bytes left: UserC is
\* refused by both calls, a member is served by both
C12_Witness ==
    \E i \in 1..Len(Purged.sessions) :
        LET session == Purged.sessions[i]
            id == session.session_id
        IN /\ 0 < session.consumed_bytes
           /\ session.consumed_bytes < session.total_bytes
           /\ consume_key_chunk(State, id, UserC, Half, now).ret.err = "validation"
           /\ read_key_chunk(State, id, UserC, 0, Half, now).ret.err = "validation"
           /\ consume_key_chunk(State, id, UserA, Half, now).ret.err = "none"
           /\ read_key_chunk(State, id, UserA, 0, Half, now).ret.err = "none"

\* C13: once the clock has passed a session's expires_at, session_status,
\* consume_key_chunk and read_key_chunk on its id raise the not-found error
\* and pair_status does not report it, whatever bytes are left; while the
\* clock is at or before expires_at the session is served; and over every
\* step an expired session stays expired and an id that has left the store
\* does not come back
C13_ExpiredIsGone ==
    /\ [](\A i \in 1..Len(sessions) :
            LET session == sessions[i]
                id == session.session_id
                status == session_status(State, id, now, "session_status")
            IN /\ session.expires_at < now =>
                    /\ status.ret.err = "not_found"
                    /\ \A u \in CallerIds :
                        /\ consume_key_chunk(State, id, u, Half, now).ret.err = "not_found"
                        /\ read_key_chunk(State, id, u, 0, Half, now).ret.err = "not_found"
                    /\ \A pair \in PlainPairs, t1 \in Later :
                        pair_status(State, pair[1], pair[2], now, t1).ret.session_id # id
               /\ session.expires_at >= now =>
                    /\ status.ret.err = "none"
                    /\ status.ret.session_id = id
                    /\ \A u \in CallerIds :
                        /\ consume_key_chunk(State, id, u, Half, now).ret.err
                            \in {"none", "exhaustion"}
                        /\ read_key_chunk(State, id, u, 0, Half, now).ret.err = "none"
                    /\ pair_status(State, UserA, UserB, now, now).ret.found)
    /\ [][\A id \in 1..uuid_count :
            /\ id \notin SessionIds(sessions) => id \notin SessionIds(sessions')
            /\ \A old \in SessionsWithId(sessions, id), new \in SessionsWithId(sessions', id) :
                old.expires_at < now => new.expires_at < now']_vars

\* a session whose deadline has passed is still stored, with all its bytes
\* unconsumed, and session_status raises the not-found error
C13_Witness ==
    \E i \in 1..Len(sessions) :
        /\ sessions[i].expires_at < now
        /\ sessions[i].consumed_bytes = 0
        /\ session_status(State, sessions[i].session_id, now, "session_status").ret.err
            = "not_found"

\* the positions of the stored sessions of the pair (u, p) that are
\* unexpired at clock value t
LiveOfPair(u, p, t) ==
    {k \in 1..Len(sessions) :
        /\ Members(sessions[k]) = {u, p}
        /\ sessions[k].expires_at >= t}

\* C14: refill_session with add_mb > 0 by two present parties whose pair has
\* a live session returns one of the pair's live sessions, under the id it
\* had, with total_bytes grown by exactly min(add_mb, max_buffer_mb) MiB,
\* consumed_bytes unchanged and available_bytes grown by the same amount
C14_RefillAddsClamped ==
    [](
    \A pair \in IdPairs, mb \in SizeMbs \cup {1}, t1 \in Later :
        LET u == Strip(pair[1])
            p == Strip(pair[2])
            live == LiveOfPair(u, p, t1)
            add_bytes == Min(mb, max_buffer_mb) * MiB
            out == refill_session(State, pair[1], pair[2], mb, now, t1)
            j == SessionAt(out.st, out.ret.session_id)
        IN (/\ u # p
            /\ mb > 0
            /\ PresentAt(u, now)
            /\ PresentAt(p, now)
            /\ live # {})
           => /\ out.ret.err = "none"
              /\ add_bytes > 0
              /\ \E k \in live :
                    /\ out.ret.session_id = sessions[k].session_id
                    /\ out.ret.total_bytes = sessions[k].total_bytes + add_bytes
                    /\ out.ret.consumed_bytes = sessions[k].consumed_bytes
                    /\ out.ret.available_bytes = available_bytes(sessions[k]) + add_bytes
                    /\ out.ret.created_at = sessions[k].created_at
              /\ j # 0
              /\ out.st.sessions[j].total_bytes = out.ret.total_bytes
              /\ out.st.sessions[j].consumed_bytes = out.ret.consumed_bytes
              /\ DataLen(out.st.sessions[j].bytes_data) = out.ret.total_bytes
              /\ out.st.uuid_count = uuid_count
    )

\* a refilled session: two os.urandom runs, 2 MiB in all, consumed in part,
\* and both parties present for the next refill
C14_Witness ==
    \E i \in 1..Len(Purged.sessions) :
        LET session == Purged.sessions[i]
        IN /\ Len(session.bytes_data) = 2
           /\ session.total_bytes = 2 * MiB
           /\ 0 < session.consumed_bytes
           /\ session.consumed_bytes < session.total_bytes
           /\ PresentAt(UserA, now)
           /\ PresentAt(UserB, now)
           /\ refill_session(State, UserA, UserBRaw, max_buffer_mb + 1, now, now)
                .ret.total_bytes = (2 + max_buffer_mb) * MiB

\* C15: a successful refill_session that reads the clock at t1 returns its
\* session with expires_at = t1 + session_ttl_seconds, which is not earlier
\* than any deadline a stored session had; no stored deadline lies beyond
\* now + session_ttl_seconds; and over every step the expires_at of a session
\* does not decrease
C15_RefillExtendsDeadline ==
    /\ [](/\ \A i \in 1..Len(sessions) :
                sessions[i].expires_at <= now + session_ttl_seconds
          /\ \A pair \in IdPairs, mb \in SizeMbs, t1 \in Later :
                LET out == refill_session(State, pair[1], pair[2], mb, now, t1)
                    j == SessionAt(out.st, out.ret.session_id)
                IN out.ret.err = "none" =>
                    /\ now <= t1
                    /\ out.ret.expires_at = t1 + session_ttl_seconds
                    /\ j # 0
                    /\ out.st.sessions[j].expires_at = t1 + session_ttl_seconds
                    /\ \A old \in SessionsWithId(sessions, out.ret.session_id) :
                        old.expires_at <= out.ret.expires_at)
    /\ [][\A id \in 1..uuid_count :
            \A old \in SessionsWithId(sessions, id), new \in SessionsWithId(sessions', id) :
                old.expires_at <= new.expires_at]_vars

\* a session refilled after the clock moved: its deadline lies beyond
\* created_at + session_ttl_seconds
C15_Witness ==
    \E i \in 1..Len(sessions) :
        /\ Len(sessions[i].bytes_data) = 2
        /\ sessions[i].expires_at > sessions[i].created_at + session_ttl_seconds
        /\ sessions[i].expires_at = now + session_ttl_seconds

\* argument pairs and sizes of refill calls: those of IdPairs, a peer id
\* that is blank after trimming, and sizes that are negative, zero, and above
\* the clamp
RefillPairs == IdPairs \cup {<<UserA, <<0>>>>}
RefillMbs == {-1, 0, max_buffer_mb + 1}

\* C16: refill_session raises the validation error when add_mb <= 0, when an
\* id is blank after trimming or when the ids are equal, and otherwise the
\* policy error when a party is not present; whenever it raises, no session
\* is created and the stored sessions are those it found, less the expired
C16_RefillFailsCleanly ==
    [](
    \A pair \in RefillPairs, mb \in RefillMbs, t1 \in Later :
        LET u == Strip(pair[1])
            p == Strip(pair[2])
            out == refill_session(State, pair[1], pair[2], mb, now, t1)
            invalid == mb <= 0 \/ u = Blank \/ p = Blank \/ u = p
        IN /\ invalid => (out.ret.err = "validation" /\ out.st = State)
           /\ (~invalid /\ (~PresentAt(u, now) \/ ~PresentAt(p, now)))
                => out.ret.err = "policy"
           /\ out.ret.err # "none" =>
                /\ out.ret.err \in {"validation", "policy"}
                /\ out.ret.chunk = <<>>
                /\ out.st.uuid_count = uuid_count
                /\ out.st.sessions \in {sessions, Purged.sessions,
                                        _purge_expired(State, t1).sessions}
    )

\* UserA is present, the entry of UserB has aged out, a live session of the
\* pair has bytes left: refill_session raises the policy error, and with
\* add_mb = 0 the validation error
C16_Witness ==
    /\ PresentAt(UserA, now)
    /\ IsActive(State, UserB)
    /\ ~PresentAt(UserB, now)
    /\ \E i \in 1..Len(Purged.sessions) :
        /\ Purged.sessions[i].consumed_bytes > 0
        /\ available_bytes(Purged.sessions[i]) > 0
    /\ refill_session(State, UserA, UserBRaw, 1, now, now).ret.err = "policy"
    /\ refill_session(State, UserA, UserBRaw, 0, now, now).ret.err = "validation"

\* C17: refill_session with add_mb > 0 for a pair that has no live session,
\* both parties being present throughout the call, has the outcome and the
\* effect of create_session with target_mb = add_mb: a new session with
\* total_bytes = min(add_mb, max_buffer_mb) MiB, consumed_bytes = 0 and
\* expires_at = (the clock value read) + session_ttl_seconds
C17_RefillCreatesWhenNone ==
    [](
    \A pair \in IdPairs, mb \in {1, max_buffer_mb + 1}, t1 \in Later :
        LET u == Strip(pair[1])
            p == Strip(pair[2])
            out == refill_session(State, pair[1], pair[2], mb, now, t1)
            made == create_session(State, pair[1], pair[2], mb, now, t1, "refill_session")
            clamped == IF mb > max_buffer_mb THEN max_buffer_mb ELSE mb
        IN (/\ u # p
            /\ PresentAt(u, t1)
            /\ PresentAt(p, t1)
            /\ LiveOfPair(u, p, t1) = {})
           => /\ out = made
              /\ out.ret.err = "none"
              /\ out.st.uuid_count = uuid_count + 1
              /\ out.ret.session_id = uuid_count + 1
              /\ out.ret.total_bytes = clamped * MiB
              /\ out.ret.consumed_bytes = 0
              /\ out.ret.available_bytes = clamped * MiB
              /\ out.ret.created_at = t1
              /\ out.ret.expires_at = t1 + session_ttl_seconds
              /\ SessionAt(out.st, out.ret.session_id) # 0
    )

\* both parties are present, the pair's only session has expired and is
\* still stored: refill_session creates a new one
C17_Witness ==
    /\ PresentAt(UserA, now)
    /\ PresentAt(UserB, now)
    /\ sessions # <<>>
    /\ LiveOfPair(UserA, UserB, now) = {}
    /\ LET out == refill_session(State, UserBRaw, UserA, 1, now, now)
       IN /\ out.ret.err = "none"
          /\ out.ret.session_id = uuid_count + 1
          /\ out.st.sessions = <<out.st.sessions[1]>>

\* sizes a caller may ask create_session for: negative, zero, one, and above
\* the clamp
CreateMbs == {-1, 0, 1, max_buffer_mb + 1}

\* C18: a session create_session allocates has total_bytes = max(1,
\* min(target_mb, max_buffer_mb)) MiB, consumed_bytes = 0, a buffer of
\* total_bytes bytes, all from one os.urandom call, and expires_at =
\* created_at + session_ttl_seconds; the status returned says the same
C18_NewSessionShape ==
    [](
    \A pair \in IdPairs, mb \in CreateMbs, t1 \in Later :
        LET out == create_session(State, pair[1], pair[2], mb, now, t1, "create_session")
            requested_mb == IF mb < 1 THEN 1
                            ELSE IF mb > max_buffer_mb THEN max_buffer_mb ELSE mb
            j == SessionAt(out.st, uuid_count + 1)
            session == out.st.sessions[j]
        IN out.st.uuid_count # uuid_count =>
            /\ out.st.uuid_count = uuid_count + 1
            /\ out.ret.err = "none"
            /\ j # 0
            /\ session.total_bytes = requested_mb * MiB
            /\ session.consumed_bytes = 0
            /\ DataLen(session.bytes_data) = session.total_bytes
            /\ Len(session.bytes_data) = 1
            /\ session.created_at = t1
            /\ session.expires_at = session.created_at + session_ttl_seconds
            /\ out.ret = StatusOf("create_session", session)
            /\ out.ret.available_bytes = requested_mb * MiB
    )

\* both parties are present and the pair has no session with bytes left:
\* create_session allocates, for target_mb = 0 and for target_mb above the
\* maximum
C18_Witness ==
    /\ PresentAt(UserA, now)
    /\ PresentAt(UserB, now)
    /\ uuid_count > 0
    /\ create_session(State, UserA, UserBRaw, 0, now, now, "create_session")
        .st.uuid_count = uuid_count + 1
    /\ create_session(State, UserA, UserBRaw, max_buffer_mb + 1, now, now, "create_session")
        .ret.total_bytes = max_buffer_mb * MiB

\* the sessions of a store, as a set
SessionSet(ss) == {ss[k] : k \in 1..Len(ss)}

\* C19: create_session, whatever target_mb it is passed and whether it
\* reuses, allocates or raises, leaves every session that was stored before
\* the call as it was (size, cursor, times, bytes), and keeps every one of
\* them that is unexpired
C19_CreateLeavesOthers ==
    [](
    \A pair \in IdPairs, mb \in CreateMbs, t1 \in Later :
        LET out == create_session(State, pair[1], pair[2], mb, now, t1, "create_session")
        IN /\ \A after \in SessionSet(out.st.sessions) :
                after.session_id <= uuid_count => after \in SessionSet(sessions)
           /\ \A before \in SessionSet(sessions) :
                before.expires_at >= t1 => before \in SessionSet(out.st.sessions)
           /\ (out.ret.err = "none" /\ out.st.uuid_count = uuid_count) =>
                \E before \in SessionSet(sessions) :
                    out.ret = StatusOf("create_session", before)
    )

\* a session made at an earlier clock value, consumed in part, both parties
\* present: create_session with a larger target_mb returns it as it is
C19_Witness ==
    \E i \in 1..Len(sessions) :
        LET out == create_session(State, UserBRaw, UserA, max_buffer_mb + 1, now, now,
                                  "create_session")
        IN /\ sessions[i].created_at < now
           /\ 0 < sessions[i].consumed_bytes
           /\ sessions[i].consumed_bytes < sessions[i].total_bytes
           /\ out.ret = StatusOf("create_session", sessions[i])
           /\ out.st.sessions = sessions

\* C20: when create_session allocates a new session for a pair whose live
\* session is exhausted, the old session_id is no longer in the store after
\* the call: session_status, consume_key_chunk and read_key_chunk on it raise
\* the not-found error
C20_CreateOverwritesExhausted ==
    \A pair \in IdPairs, mb \in CreateMbs, t1 \in Later :
        LET u == Strip(pair[1])
            p == Strip(pair[2])
            out == create_session(State, pair[1], pair[2], mb, now, t1, "create_session")
        IN \A k \in LiveOfPair(u, p, t1) :
            (/\ out.st.uuid_count # uuid_count
             /\ sessions[k].consumed_bytes = sessions[k].total_bytes)
            => LET old == sessions[k].session_id
               IN /\ SessionAt(out.st, old) = 0
                  /\ session_status(out.st, old, t1, "session_status").ret.err = "not_found"
                  /\ consume_key_chunk(out.st, old, u, Half, t1).ret.err = "not_found"
                  /\ read_key_chunk(out.st, old, u, 0, Half, t1).ret.err = "not_found"

\* ids a caller may pass as exclude_user_id: none, a present user, an absent
\* one, and an id padded with blanks
Excludes == {Blank, UserA, UserB, UserC, UserBRaw}

\* the user ids of a returned list
ListedIds(users) == {users[i].user_id : i \in 1..Len(users)}

\* the users whose stored heartbeat is at most presence_ttl_seconds old at
\* clock value t
FreshIds(t) ==
    {active_users[i].user_id :
        i \in {k \in 1..Len(active_users) :
                t - active_users[k].seen_at <= presence_ttl_seconds}}

\* C21: list_active_users called at clock value now returns exactly the users
\* whose last heartbeat is at most presence_ttl_seconds old, less the
\* excluded id, whoever calls and whatever entries are stored; the peer list
\* of mark_active, read at clock value t1, holds exactly the other users
\* whose last heartbeat is at most presence_ttl_seconds before t1
C21_ListIsExactlyFresh ==
    [](
    /\ \A ex \in Excludes, t1 \in Later :
        LET out == list_active_users(State, ex, now, t1)
        IN /\ out.ret.err = "none"
           /\ ListedIds(out.ret.users) = FreshIds(now) \ (IF ex # Blank THEN {ex} ELSE {})
           /\ \A i \in 1..Len(out.ret.users) :
                out.ret.users[i].last_seen_seconds <= presence_ttl_seconds + (t1 - now)
    /\ \A u \in {UserA, UserBRaw, UserC}, t1 \in Later :
        LET out == mark_active(State, u, Blank, now, t1)
        IN ListedIds(out.ret.users) = FreshIds(t1) \ {Strip(u)}
    )

\* the entry of UserA has aged out and is still stored, UserB is present:
\* the list UserB gets, and the list anyone gets, does not hold UserA
C21_Witness ==
    /\ IsActive(State, UserA)
    /\ ~PresentAt(UserA, now)
    /\ PresentAt(UserB, now)
    /\ ListedIds(list_active_users(State, Blank, now, now).ret.users) = {UserB}
    /\ ListedIds(mark_active(State, UserC, Blank, now, now).ret.users) = {UserB}

\* user ids and labels a heartbeat may carry: blank, all blanks, plain,
\* padded with blanks
MarkIds == {Blank, <<0>>, UserA, UserBRaw, UserC}
MarkLabels == {Blank, <<0>>, <<4, 0>>}

\* the stored presence entries of one user
EntriesOf(st, user_id) ==
    {i \in 1..Len(st.active_users) : st.active_users[i].user_id = user_id}

\* C22: mark_active with a user id that is not blank once trimmed leaves
\* exactly one presence entry of that user, whose seen_at is the clock value
\* read by the call and whose label is the trimmed label or else the user id,
\* and returns a peer list without the caller; with a blank user id it raises
\* a validation error and leaves the registry as it was; no state holds two
\* entries of one user
C22_MarkActiveReplaces ==
    [](
    /\ \A i, j \in 1..Len(active_users) :
        active_users[i].user_id = active_users[j].user_id => i = j
    /\ \A u \in MarkIds, l \in MarkLabels, t1 \in Later :
        LET out == mark_active(State, u, l, now, t1)
            user_id == Strip(u)
        IN IF user_id = Blank
           THEN /\ out.ret.err = "validation"
                /\ out.st = State
           ELSE /\ out.ret.err = "none"
                /\ Cardinality(EntriesOf(out.st, user_id)) = 1
                /\ \A i \in EntriesOf(out.st, user_id) :
                    /\ out.st.active_users[i].seen_at = t1
                    /\ out.st.active_users[i].label =
                        (IF Strip(l) # Blank THEN Strip(l) ELSE user_id)
                /\ user_id \notin ListedIds(out.ret.users)
                /\ out.ret.user_a = user_id
    )

\* UserA has an entry from an earlier clock value and heartbeats again: the
\* entry is replaced in place and carries the new clock value
C22_Witness ==
    /\ IsActive(State, UserA)
    /\ \E i \in EntriesOf(State, UserA) : active_users[i].seen_at < now
    /\ LET out == mark_active(State, UserA, Blank, now, now)
       IN /\ Cardinality(EntriesOf(out.st, UserA)) = 1
          /\ \A i \in EntriesOf(out.st, UserA) : out.st.active_users[i].seen_at = now
          /\ mark_active(State, <<0>>, Blank, now, now).ret.err = "validation"

\* labels a third user may register under: its own id, one that sorts
\* between the labels of UserA and UserB, one equal to the label of UserB,
\* one that sorts last
SortLabels == {Blank, <<1, 5>>, <<2>>, <<4, 0>>}

\* the states a list is taken from: the current one, and the current one
\* after UserC registered under one of the labels
ListedFrom == {State} \cup {mark_active(State, UserC, l, now, now).st : l \in SortLabels}

\* a list ascending by label
SortedByLabel(users) ==
    \A i, j \in 1..Len(users) : i < j => ~StrLess(users[j].label, users[i].label)

\* C23: the list list_active_users returns is ascending by label, holds at
\* most one item per user id, and never holds the id passed as
\* exclude_user_id
C23_ListSortedDistinct ==
    [](
    \A st \in ListedFrom, ex \in Excludes, t1 \in Later :
        LET users == list_active_users(st, ex, now, t1).ret.users
        IN /\ SortedByLabel(users)
           /\ \A i, j \in 1..Len(users) : users[i].user_id = users[j].user_id => i = j
           /\ ex \notin ListedIds(users)
    )

\* UserB registered before UserA and both are present, so the dict order is
\* not the label order; the list comes back sorted, and a third user whose
\* label sorts between the two comes second
C23_Witness ==
    /\ Len(active_users) = 2
    /\ active_users[1].user_id = UserB
    /\ active_users[2].user_id = UserA
    /\ PresentAt(UserA, now)
    /\ PresentAt(UserB, now)
    /\ LET users == list_active_users(State, Blank, now, now).ret.users
           more == list_active_users(mark_active(State, UserC, <<1, 5>>, now, now).st,
                                     Blank, now, now).ret.users
       IN /\ Len(users) = 2
          /\ users[1].user_id = UserA
          /\ Len(more) = 3
          /\ more[2].user_id = UserC
          /\ ListedIds(list_active_users(State, UserA, now, now).ret.users) = {UserB}

\* the callers of consume_key_chunk and read_key_chunk: members, an
\* outsider, a blank id
ChunkCallers == {UserA, UserBRaw, UserC, Blank}

\* the outcome of every public call that can be made in the current state,
\* t1 being the clock value of the reads after the first purge
Outcomes(t1) ==
    {mark_active(State, u, Blank, now, t1) : u \in MarkIds}
    \cup {list_active_users(State, ex, now, t1) : ex \in Excludes}
    \cup {create_session(State, pr[1], pr[2], mb, now, t1, "create_session") :
            pr \in IdPairs, mb \in CreateMbs}
    \cup {refill_session(State, pr[1], pr[2], mb, now, t1) :
            pr \in RefillPairs, mb \in RefillMbs}
    \cup {pair_status(State, pr[1], pr[2], now, t1) : pr \in PlainPairs}
    \cup {session_status(State, id, now, "session_status") : id \in KnownIds}
    \cup {consume_key_chunk(State, id, u, n, now) :
            id \in KnownIds, u \in ChunkCallers, n \in ChunkSizes \cup {-1}}
    \cup {read_key_chunk(State, id, u, a[1], a[2], now) :
            id \in KnownIds, u \in ChunkCallers, a \in ReadArgs}

\* the kinds of error among a set of outcomes
ErrorsOf(outs) == {out.ret.err : out \in outs}

\* C24: a public call that raises leaves the presence registry and the
\* sessions as they were before the call, or as they were less the entries
\* that had expired by a clock value the call read
C24_ErrorsChangeNothing ==
    [](
    \A t1 \in Later :
        \A out \in Outcomes(t1) :
            out.ret.err # "none" =>
                out.st \in {State, Purged, _purge_expired(Purged, t1)}
    )

\* a live session that is exhausted and a stored presence entry that has
\* aged out: calls fail with each kind of error, and the exhaustion error
\* leaves the purged store
C24_Witness ==
    /\ \E i \in 1..Len(sessions) :
        /\ sessions[i].expires_at >= now
        /\ available_bytes(sessions[i]) = 0
        /\ LET out == consume_key_chunk(State, sessions[i].session_id, UserA, Half, now)
           IN /\ out.ret.err = "exhaustion"
              /\ out.st = Purged
    /\ Purged # State
    /\ ErrorsOf(Outcomes(now)) =
        {"none", "validation", "policy", "not_found", "exhaustion", "out_of_bounds"}

\* a store without a presence entry older than presence_ttl_seconds and
\* without a session whose expires_at is before clock value t
HoldsNothingExpired(st, t) ==
    /\ \A i \in 1..Len(st.active_users) :
        t - st.active_users[i].seen_at <= presence_ttl_seconds
    /\ \A i \in 1..Len(st.sessions) : st.sessions[i].expires_at >= t

\* C28: whenever a public call returns, with a result or with any error, a
\* validation error included, the store holds no presence entry older than
\* presence_ttl_seconds and no session whose expires_at is before the time
\* of the call
C28_EveryReturnPurged ==
    \A t1 \in Later :
        \A out \in Outcomes(t1) : HoldsNothingExpired(out.st, now)

\* the same for the calls that return a result or raise after their
\* argument checks: these have purged
C28_PurgedUnlessArgumentsRejected ==
    \A t1 \in Later :
        \A out \in Outcomes(t1) :
            out.ret.err # "validation" => HoldsNothingExpired(out.st, now)

\* C30: right after create_session or refill_session returns the status of
\* session S for a pair, pair_status for that pair, in either argument
\* order, returns the status of S; and pair_status returns absent, without
\* raising, exactly when the pair has no live session
C30_PairStatusAgrees ==
    /\ \A pr \in {<<UserA, UserBRaw>>, <<UserBRaw, UserA>>}, t1 \in Later :
        \A out \in {create_session(State, pr[1], pr[2], 0, now, t1, "create_session"),
                    refill_session(State, pr[1], pr[2], 1, now, t1)} :
            out.ret.err = "none" =>
                \A qr \in {<<UserA, UserB>>, <<UserB, UserA>>} :
                    LET seen == pair_status(out.st, qr[1], qr[2], t1, t1)
                    IN /\ seen.ret.err = "none"
                       /\ seen.ret.found
                       /\ seen.ret.session_id = out.ret.session_id
    /\ \A qr \in {<<UserA, UserB>>, <<UserB, UserA>>, <<UserA, UserC>>} :
        LET seen == pair_status(State, qr[1], qr[2], now, now)
        IN /\ seen.ret.err = "none"
           /\ seen.ret.found <=> LiveOfPair(qr[1], qr[2], now) # {}

\* C25: with threads calling concurrently, a thread stands at a statement
\* that reads or writes the presence map, the session map or a session only
\* while it owns the lock; at most one thread is inside a with-block; the
\* lock's recursion level is the number of with-blocks its owner is inside;
\* and what a call returns and the data it leaves are what its handler, run
\* alone on the data found when it took the lock, returns and leaves, so
\* every execution equals the calls run one at a time in the order they took
\* the lock
C25_CallsSerialize ==
    /\ \A t, u \in Threads : (Held(t) > 0 /\ Held(u) > 0) => t = u
    /\ \A t \in Threads :
        /\ threads[t].pc \in {"purge", "body", "alloc", "exit"} => lock.owner = t
        /\ Held(t) > 0 => (lock.owner = t /\ lock.count = Held(t))
        /\ Held(t) = 0 => lock.owner # t
        /\ (threads[t].pc = "exit" /\ Len(threads[t].stack) = 1) =>
            LET alone == Atomic(threads[t].snap, threads[t].call)
            IN /\ alone.st = State
               /\ alone.ret = threads[t].ret
        /\ threads[t].pc = "reject" =>
            LET alone == Atomic(State, threads[t].call)
            IN /\ alone.st = State
               /\ alone.ret = threads[t].ret

\* thread a is about to return the session it allocated while thread b,
\* which called create_session too, waits for the lock
C25_Witness ==
    /\ threads["a"].pc = "exit"
    /\ threads["a"].stack = <<"create_session">>
    /\ threads["a"].ret.err = "none"
    /\ threads["a"].snap.sessions = <<>>
    /\ sessions # <<>>
    /\ threads["b"].pc = "acquire"
    /\ threads["b"].stack = <<"create_session">>

\* the sessions of the pair (UserA, UserB) in the store
PairSessions == {i \in 1..Len(sessions) : Members(sessions[i]) = {UserA, UserB}}

\* C26: when two threads have each called create_session for the pair while
\* the pair had no session, and both calls have returned a session, both
\* returned the same session_id and the store holds one session of the pair
C26_ConcurrentCreateOnce ==
    \A t, u \in Threads :
        (t # u /\ threads[t].got # 0 /\ threads[u].got # 0) =>
            /\ threads[t].got = threads[u].got
            /\ Cardinality(PairSessions) = 1
            /\ uuid_count = 1

\* both threads called create_session, one with (A, B) and one with (B, A),
\* before any session existed, and both have returned
C26_Witness ==
    /\ threads["a"].got # 0
    /\ threads["b"].got # 0
    /\ threads["a"].pc = "idle"
    /\ threads["b"].pc = "idle"

\* C27: under fair scheduling every call returns, with a result or an error,
\* that is, no thread stays inside a call for ever; the nested calls take the
\* lock their thread already owns; and when no thread is inside a with-block
\* the lock is free
C27_EveryCallReturns ==
    /\ [](\A t \in Threads : Len(threads[t].stack) > 1 => lock.owner = t)
    /\ []((\A t \in Threads : Held(t) = 0) => lock = Unlocked)
    /\ \A t \in Threads : []<>(threads[t].pc = "idle")

\* refill_session called create_session, which called session_status: the
\* thread is inside three with-blocks of the one lock
C27_Witness ==
    /\ threads["a"].stack = <<"refill_session", "create_session", "session_status">>
    /\ threads["a"].pc = "exit"
    /\ lock = [owner |-> "a", count |-> 3]
    /\ threads["b"].pc = "acquire"

\* what consume_key_chunk of n bytes by UserA returns on session session_id
\* of store st
Consumed(st, session_id, n) == consume_key_chunk(st, session_id, UserA, n, now)

\* C29: from the fresh store, with the clock standing still: after the
\* heartbeats of A and B, create_session(A, B, 1) returns a session of
\* 1,048,576 bytes; consume_key_chunk of 2000 bytes returns 2000 bytes at
\* offset 0 and leaves 1,046,576 available; consume_key_chunk of 2,000,000
\* bytes then returns the remaining 1,046,576 bytes at offset 2000; a third
\* consume raises the exhaustion error.  The last two steps hold from every
\* state in which a session of 1,048,576 bytes has handed out 2000
C29_EndToEnd ==
    /\ (active_users = <<>> /\ sessions = <<>> /\ uuid_count = 0) =>
        LET h1 == mark_active(State, UserA, Blank, now, now)
            h2 == mark_active(h1.st, UserB, Blank, now, now)
            cr == create_session(h2.st, UserA, UserB, 1, now, now, "create_session")
            c1 == Consumed(cr.st, cr.ret.session_id, FirstChunk)
            c2 == Consumed(c1.st, cr.ret.session_id, SecondChunk)
        IN /\ h1.ret.err = "none" /\ h2.ret.err = "none"
           /\ ListedIds(h2.ret.users) = {UserA}
           /\ cr.ret.err = "none"
           /\ cr.ret.total_bytes = 1048576
           /\ cr.ret.available_bytes = 1048576
           /\ c1.ret.err = "none"
           /\ c1.ret.chunk_size = 2000
           /\ c1.ret.offset = 0
           /\ c1.ret.available_bytes = 1046576
           /\ c2.ret.err = "none"
           /\ c2.ret.chunk_size = 1046576
           /\ c2.ret.offset = 2000
           /\ c2.ret.available_bytes = 0
           /\ \A n \in {FirstChunk, SecondChunk} :
                Consumed(c2.st, cr.ret.session_id, n).ret.err = "exhaustion"
    /\ \A i \in 1..Len(sessions) :
        (sessions[i].total_bytes = 1048576 /\ sessions[i].consumed_bytes = 2000) =>
            LET c2 == Consumed(State, sessions[i].session_id, SecondChunk)
            IN /\ c2.ret.err = "none"
               /\ c2.ret.chunk_size = 1046576
               /\ c2.ret.offset = 2000
               /\ ChunkLen(c2.ret.chunk) = 1046576
               /\ c2.ret.available_bytes = 0
               /\ \A n \in {FirstChunk, SecondChunk} :
                    Consumed(c2.st, sessions[i].session_id, n).ret.err = "exhaustion"

\* the run has come to the point after the first consume: both users
\* present, one session of 1,048,576 bytes, 2000 of them handed out
C29_Witness ==
    /\ IsActive(State, UserA)
    /\ IsActive(State, UserB)
    /\ Len(sessions) = 1
    /\ sessions[1].total_bytes = 1048576
    /\ sessions[1].consumed_bytes = 2000
    /\ issued[sessions[1].session_id] = 2000

\* C31: if consume_key_chunk on a live session S raises the exhaustion error
\* and refill_session for the pair of S then succeeds while S has not
\* expired, the next consume_key_chunk on S by a member succeeds and starts
\* at the total_bytes S had before the refill
C31_RefillRestoresConsume ==
    \A i \in 1..Len(sessions), t1 \in Later :
        LET S == sessions[i]
            failed == consume_key_chunk(State, S.session_id, S.user_a, Half, now)
            refilled == refill_session(State, S.user_a, S.user_b, 1, now, t1)
            next == consume_key_chunk(refilled.st, S.session_id, S.user_b, Half, t1)
        IN (/\ failed.ret.err = "exhaustion"
            /\ refilled.ret.err = "none"
            /\ S.expires_at >= t1) =>
            /\ next.ret.err = "none"
            /\ next.ret.offset = S.total_bytes

\* the same where the pair has one live session only: there the refill
\* reaches the session the caller holds
C31_RefillRestoresOnlySession ==
    \A i \in 1..Len(sessions), t1 \in Later :
        LET S == sessions[i]
            failed == consume_key_chunk(State, S.session_id, S.user_a, Half, now)
            refilled == refill_session(State, S.user_a, S.user_b, 1, now, t1)
            next == consume_key_chunk(refilled.st, S.session_id, S.user_b, Half, t1)
        IN (/\ failed.ret.err = "exhaustion"
            /\ refilled.ret.err = "none"
            /\ S.expires_at >= t1
            /\ Cardinality(LiveOfPair(S.user_a, S.user_b, now)) = 1) =>
            /\ next.ret.err = "none"
            /\ next.ret.offset = S.total_bytes

\* the runs of a are the first runs of b
IsPrefix(a, b) == Len(a) <= Len(b) /\ SubSeq(b, 1, Len(a)) = a

\* the stores that calls made between two reads of session id can leave:
\* none, a consume by a member, a refill of the pair, a consume and then a
\* refill
Between(id, t1) ==
    LET consumed == {consume_key_chunk(State, id, UserA, n, now).st : n \in {Half, Huge}}
    IN {State} \cup consumed
       \cup {refill_session(st, UserA, UserBRaw, 1, now, t1).st : st \in {State} \cup consumed}

\* <<offset, chunk_bytes>> of reads inside the first run, across the end of
\* the first run, and inside the bytes a refill added
ReadRanges == {<<0, Half>>, <<Half, MiB>>, <<MiB, Half>>}

\* C32: in every state total_bytes of a session is the length of its
\* buffer; over every step the buffer a session had is a prefix of the
\* buffer it has; two successful read_key_chunk calls with the same offset
\* and size return the same bytes whatever consume and refill calls come
\* between; and the chunk consume_key_chunk returns at offset o with size k
\* is the chunk read_key_chunk returns for (o, k), before and after
C32_BufferAppendOnly ==
    /\ [](\A i \in 1..Len(sessions) :
            LET id == sessions[i].session_id
            IN /\ sessions[i].total_bytes = DataLen(sessions[i].bytes_data)
               /\ \A a \in ReadRanges, t1 \in Later :
                    \A st \in Between(id, t1) :
                        LET first == read_key_chunk(State, id, UserA, a[1], a[2], now)
                            second == read_key_chunk(st, id, UserBRaw, a[1], a[2], t1)
                        IN (first.ret.err = "none" /\ second.ret.err = "none") =>
                            /\ second.ret.chunk = first.ret.chunk
                            /\ ChunkLen(first.ret.chunk) = a[2]
               /\ \A n \in ChunkSizes :
                    LET taken == consume_key_chunk(State, id, UserA, n, now)
                    IN taken.ret.err = "none" =>
                        \A st \in {State, taken.st} :
                            LET again == read_key_chunk(st, id, UserA, taken.ret.offset,
                                                        taken.ret.chunk_size, now)
                            IN /\ again.ret.err = "none"
                               /\ again.ret.chunk = taken.ret.chunk)
    /\ [][\A id \in 1..uuid_count :
            \A old \in SessionsWithId(sessions, id), new \in SessionsWithId(sessions', id) :
                /\ IsPrefix(old.bytes_data, new.bytes_data)
                /\ new.total_bytes >= old.total_bytes]_vars

\* a session that was refilled and has handed out bytes: a read across the
\* boundary of the two runs succeeds, and so does the same read after a
\* further consume
C32_Witness ==
    \E i \in 1..Len(sessions) :
        /\ Len(sessions[i].bytes_data) = 2
        /\ sessions[i].consumed_bytes > 0
        /\ sessions[i].expires_at >= now
        /\ LET id == sessions[i].session_id
               first == read_key_chunk(State, id, UserA, Half, MiB, now)
               st == consume_key_chunk(State, id, UserA, Half, now).st
               second == read_key_chunk(st, id, UserA, Half, MiB, now)
           IN /\ first.ret.err = "none"
              /\ Len(first.ret.chunk) = 2
              /\ st # State
              /\ second.ret.chunk = first.ret.chunk

\* C33: in every state no session's total_bytes exceeds max_buffer_mb MiB,
\* however many times the session was refilled
C33_CapacityBounded ==
    \A i \in 1..Len(sessions) : sessions[i].total_bytes <= max_buffer_mb * MiB

\* what does hold: a session is created with at most max_buffer_mb MiB and a
\* refill adds at most max_buffer_mb MiB to it
C33_EachGrantBounded ==
    \A i \in 1..Len(sessions) :
        \A k \in 1..Len(sessions[i].bytes_data) :
            sessions[i].bytes_data[k].len <= max_buffer_mb * MiB

\* the store with an empty presence registry
NobodyPresent == [State EXCEPT !.active_users = <<>>]

\* the outcomes of the calls that withdraw or look up, made on store st
Withdrawals(st, t1) ==
    {consume_key_chunk(st, id, u, n, now) :
        id \in KnownIds, u \in ChunkCallers, n \in ChunkSizes}
    \cup {read_key_chunk(st, id, u, a[1], a[2], now) :
            id \in KnownIds, u \in ChunkCallers, a \in ReadArgs}
    \cup {session_status(st, id, now, "session_status") : id \in KnownIds}
    \cup {pair_status(st, pr[1], pr[2], now, t1) : pr \in PlainPairs}

\* what a call returned and the sessions it left
Effect(out) == <<out.ret, out.st.sessions>>

\* C34: consume_key_chunk, read_key_chunk, session_status and pair_status
\* return the same and leave the same sessions whatever the presence
\* registry holds; the sessions a purge keeps are those that have not
\* expired, whoever is present; so on a session that has not expired a
\* member's read succeeds and a member's consume succeeds or raises the
\* exhaustion error, also when no party is present any more
C34_WithdrawNeedsNoPresence ==
    [](
    /\ \A t1 \in Later :
        {Effect(out) : out \in Withdrawals(State, t1)}
            = {Effect(out) : out \in Withdrawals(NobodyPresent, t1)}
    /\ \A t \in {now} \cup Later :
        _purge_expired(State, t).sessions = _purge_expired(NobodyPresent, t).sessions
    /\ \A i \in 1..Len(sessions) :
        sessions[i].expires_at >= now =>
            \A u \in Members(sessions[i]) :
                /\ read_key_chunk(State, sessions[i].session_id, u, 0, Half, now).ret.err
                    = "none"
                /\ consume_key_chunk(State, sessions[i].session_id, u, Half, now).ret.err
                    \in {"none", "exhaustion"}
                /\ session_status(State, sessions[i].session_id, now,
                                  "session_status").ret.err = "none"
    )

\* both presence entries have aged out and the session has bytes left and
\* has not expired: the member consumes and reads, pair_status finds the
\* session, and the purge leaves it in the store
C34_Witness ==
    /\ IsActive(State, UserA) /\ ~PresentAt(UserA, now)
    /\ IsActive(State, UserB) /\ ~PresentAt(UserB, now)
    /\ \E i \in 1..Len(sessions) :
        LET taken == consume_key_chunk(State, sessions[i].session_id, UserA, Half, now)
        IN /\ sessions[i].expires_at >= now
           /\ taken.ret.err = "none"
           /\ taken.st.active_users = <<>>
           /\ read_key_chunk(State, sessions[i].session_id, UserB, 0, Half, now).ret.err
                = "none"
           /\ pair_status(State, UserA, UserB, now, now).ret.found

\* a thread that has answered a refill request with success
Answered(t) ==
    /\ threads[t].pc = "idle"
    /\ threads[t].call.op = "qkd_refill_session"
    /\ threads[t].ret.err = "none"

\* the live session the pair of thread t's request has as the handler goes on
\* after pair_status, or 0
PairSessionOf(t) ==
    _find_pair_session(Purged, Strip(threads[t].call.u), Strip(threads[t].call.p), now)

\* C35: a refill request that succeeds returns a session status with
\* available_bytes >= min(target_mb, max_buffer_mb) MiB, target_mb being the
\* larger of the requested and the estimated size; and the handler performs
\* no refill when the pair's live session has the target available already.
\* Both hold whatever runs between the handler's pair_status and its
\* refill_session.
C35_EndpointTopsUp ==
    /\ [](\A t \in Threads :
            Answered(t) =>
                threads[t].ret.available_bytes
                    >= Min(threads[t].target_mb, max_buffer_mb) * MiB)
    /\ [][\A t \in Threads :
            /\ threads[t].pc = "refill"
            /\ threads'[t].pc = "idle"
            /\ PairSessionOf(t) # 0
            /\ available_bytes(Purged.sessions[PairSessionOf(t)])
                    >= threads[t].target_mb * MiB
            => /\ threads'[t].added_mb = 0
               /\ TotalRuns(sessions') <= TotalRuns(sessions)]_vars

\* the first half of C35 alone
C35_AnswerHasTarget ==
    \A t \in Threads :
        Answered(t) =>
            threads[t].ret.available_bytes
                >= Min(threads[t].target_mb, max_buffer_mb) * MiB

\* the second half of C35 alone
C35_NoNeedlessRefill ==
    [][\A t \in Threads :
            /\ threads[t].pc = "refill"
            /\ threads'[t].pc = "idle"
            /\ PairSessionOf(t) # 0
            /\ available_bytes(Purged.sessions[PairSessionOf(t)])
                    >= threads[t].target_mb * MiB
            => /\ threads'[t].added_mb = 0
               /\ TotalRuns(sessions') <= TotalRuns(sessions)]_vars

\* the ids of a listing are all in table gmail_messages under the account
AllUpserted(db, account_id, ids) ==
    \A k \in 1..Len(ids) : <<account_id, ids[k]>> \in db.messages

\* C36: sync_account changes the stored history_id or last_sync_at of an
\* account only in a run in which every listed message id was fetched and
\* upserted; a run in which a fetch or an upsert raises leaves the stored
\* history_id as it was and raises; sync_all appends exactly one result per
\* account, the error entry for an account whose sync raised, and goes on
\* with the accounts after it, so that what it returns has one result per
\* account, in order.
C36_HistoryAfterMessages ==
    /\ [](/\ \A i \in 1..Len(gmail_accounts), w \in SyncWorlds, t1 \in Later :
                LET account == gmail_accounts[i]
                    out == sync_account(Tables, account, w, t1)
                    row == out.db.accounts[i]
                IN /\ row.history_id # account.history_id
                        \/ row.last_sync_at # account.last_sync_at
                      => /\ w.fails = NoFailure
                         /\ out.ret.error = "none"
                         /\ AllUpserted(out.db, account.id, w.ids)
                   /\ w.fails.at \in {"fetch", "upsert"}
                      => /\ row.history_id = account.history_id
                         /\ row.last_sync_at = account.last_sync_at
                         /\ out.ret.error # "none"
                   /\ \A j \in 1..Len(gmail_accounts) :
                        j # i => out.db.accounts[j] = gmail_accounts[j]
          /\ sync.pc = "loop" => Len(sync.results) = sync.i - 1
          /\ sync.pc = "idle"
             => /\ Len(sync.ret.results) = sync.ret.count
                /\ sync.ret.count = Len(sync.accounts)
                /\ \A j \in 1..Len(sync.accounts) :
                        sync.ret.results[j].email = sync.accounts[j].email)
    /\ [][sync.pc = "loop" /\ sync.i <= Len(sync.accounts)
          => /\ sync'.pc = "loop"
             /\ sync'.i = sync.i + 1
             /\ Len(sync'.results) = Len(sync.results) + 1
             /\ sync'.results[sync.i].email = sync.accounts[sync.i].email
             /\ sync'.results[sync.i].error # "none"
                => /\ sync'.results[sync.i].synced = 0
                   /\ gmail_accounts'[sync.i].history_id = gmail_accounts[sync.i].history_id
                   /\ gmail_accounts'[sync.i].last_sync_at
                        = gmail_accounts[sync.i].last_sync_at]_vars

\* sync_all has returned: the sync of the first account raised after its
\* first message was stored, and its history_id is as before; the second
\* account was synced all the same, and its history_id advanced
C36_Witness ==
    /\ sync.pc = "idle"
    /\ sync.ret.count = 2
    /\ sync.ret.results[1].error = "raised"
    /\ <<1, 1>> \in gmail_messages
    /\ <<1, 2>> \notin gmail_messages
    /\ gmail_accounts[1].history_id = 0
    /\ gmail_accounts[1].last_sync_at = -1
    /\ sync.ret.results[2].error = "none"
    /\ sync.ret.results[2].synced = 2
    /\ gmail_accounts[2].history_id = 1
    /\ AllUpserted(Tables, 2, <<1, 2>>)

\* the call in progress has left _run_with_retry
RetryOver == retry.pc \in {"returned", "raised"}

\* C37: a call of _run_with_retry with retries >= 1 invokes the operation at
\* most `retries` times and terminates; it returns the value of the first
\* invocation that succeeds and invokes nothing after it; an error that is
\* not a transient socket error is re-raised right after the invocation that
\* produced it; only transient errors are followed by another invocation; a
\* failure of the last allowed invocation is re-raised, the call never
\* returns normally after it.
C37_RetryBounded ==
    /\ [](retry.retries >= 1
          => /\ retry.calls <= retry.retries
             /\ retry.calls <= retry.attempt + 1
             /\ retry.pc = "returned" => retry.ret \in Values /\ retry.calls = retry.attempt + 1
             /\ retry.pc = "raised"
                => /\ retry.raised = retry.last_error
                   /\ retry.raised \in Exceptions
                   /\ \/ ~_is_transient_socket_error(retry.raised)
                      \/ retry.calls = retry.retries
             /\ retry.pc = "sleep"
                => /\ _is_transient_socket_error(retry.last_error)
                   /\ retry.calls < retry.retries)
    /\ [][retry.retries >= 1
          => /\ RetryOver /\ retry' # retry
                => retry'.pc = "loop" /\ retry'.calls = 0
             /\ retry'.calls = retry.calls + 1 /\ retry'.pc # "returned"
                => /\ retry'.last_error \in Exceptions
                   /\ ~_is_transient_socket_error(retry'.last_error)
                      => retry'.pc = "raised" /\ retry'.raised = retry'.last_error
                   /\ retry'.calls = retry.retries
                      => retry'.pc = "raised" /\ retry'.raised = retry'.last_error
             /\ retry'.calls = retry.calls + 1 /\ retry.calls >= 1
                => _is_transient_socket_error(retry.last_error)]_vars
    /\ []<>(retry.pc \notin {"loop", "sleep"})

\* a call with retries = 3 whose first two invocations met transient errors,
\* one known by its winerror and one by its message, and whose third returned
C37_Witness ==
    /\ retry.pc = "returned"
    /\ retry.retries = 3
    /\ retry.calls = 3
    /\ retry.ret \in Values
    /\ retry.last_error.winerror # 10035
    /\ _is_transient_socket_error(retry.last_error)

\* a call that gave up: the last allowed invocation met a transient error
C37_WitnessGivesUp ==
    /\ retry.pc = "raised"
    /\ retry.retries = 2
    /\ retry.calls = 2
    /\ _is_transient_socket_error(retry.raised)
====
